---- MODULE Spec2Model ----
(***************************************************************************)
(* Model of the recruiting dashboard: the Analytics page                   *)
(* (src/src/pages/manager/Analytics.tsx), the role dashboard               *)
(* (src/src/pages/dashboard/ManagerDashboard.tsx) and the navbar           *)
(* (src/src/components/layout/Navbar.tsx).                                 *)
(*                                                                         *)
(* The Analytics page owns one query per data category (KPI counts, funnel rows,     *)
(* assessment results, trend rows, top performers); every derived view     *)
(* model (useMemo) is a function of the query results and is written here  *)
(* as an operator over the state.                                          *)
(*                                                                         *)
(* Numbers: a percentage the code keeps at one decimal                     *)
(* (parseFloat(x.toFixed(1))) is held as an integer number of tenths of a  *)
(* percent, so 100 % is 1000 and 33.3 % is 333.  Percentages the code      *)
(* rounds with Math.round are plain integers.                              *)
(***************************************************************************)
EXTENDS Integers, Sequences, FiniteSets, TLC

VARIABLES
    funnelStatus,          \* state of the 'analyticsFunnelCandidates' query
    funnelCandidatesData,  \* its data: None, or Some(sequence of rows)
    kpiPc,                 \* position of the KPI queryFn: number of count queries answered
    kpiReplies,            \* the replies of the count queries answered so far
    kpiStatus,             \* state of the 'analyticsKpiDataWithChange' query
    kpiData,               \* its data: None, or Some(record of six counts)
    storeActive,           \* candidates rows in the store whose status is not 'Closed'
    storeWrittenBetween,   \* a row was written between the 1st and the 4th count query
    calcArgs,              \* arguments handed to calcChange
    calcResult,            \* None, or Some(what calcChange returned for calcArgs)
    scanArgs,              \* arguments handed to the bottleneck scan
    scanResult,            \* None, or Some(what the scan returned for scanArgs)
    now,                   \* the clock: what new Date() returns
    trendsStatus,          \* state of the 'analyticsHiringTrends' query
    trendsTable,           \* the candidates table as the trends query read it
    trendsData,            \* its data: None, or Some([candidates, hires, months])
    topStatus,             \* state of the 'analyticsTopPerformers' query
    topTable,              \* the candidates table as the top performers query read it
    topPerformersData,     \* its data: None, or Some(sequence of {id, name, score})
    assessStatus,          \* state of the 'analyticsAssessmentResults' query
    assessTable,           \* the assessment_results table as the query read it
    assessmentResultsData, \* its data: None, or Some(sequence of rows)
    aggCall,               \* an aggregation and the rows it is invoked on
    aggResults,            \* what its invocations so far returned, and on which date
    role,                  \* the role prop of the role dashboard
    user,                  \* useAuth().user: None, or Some(the user's id)
    pendPc,                \* position of the pendingCandidates queryFn
    pendIssued,            \* the queryFn sent a query to the store
    pendTable,             \* the candidates table as that query read it
    pendToast,             \* the 'Error fetching candidates' toast was shown
    pendStatus,            \* state of the 'pendingCandidates' query
    pendingCandidates,     \* its data: None, or Some(sequence of rows)
    ivTable,               \* the interviews table as the upcoming interviews query read it
    ivToast,               \* the 'Error fetching interviews' toast was shown
    ivStatus,              \* state of the 'upcomingInterviews' query
    upcomingInterviewsRaw, \* its data: None, or Some(sequence of rows)
    profPc,                \* position of the candidateProfiles queryFn
    profIssued,            \* the queryFn sent a query to the store
    profToast,             \* the 'Error fetching candidate profiles' toast was shown
    candidateProfiles,     \* its data: None, or Some(profiles by candidate id)
    navPc,                 \* the navbar: "constructed", "mounted", or "leaving" for the login page
    storedRole,            \* localStorage's 'userRole' item: None, or Some(text)
    scrollY,               \* window.scrollY
    isOpen,                \* the navbar's mobile menu is open
    isScrolled,            \* the navbar's scrolled state
    isAuthenticated,       \* the navbar's authenticated state
    userRole               \* the navbar's role: None (null), or Some(text)

funnelVars == <<funnelStatus, funnelCandidatesData>>
kpiVars    == <<kpiPc, kpiReplies, kpiStatus, kpiData, storeActive, storeWrittenBetween>>
calcVars   == <<calcArgs, calcResult>>
scanVars   == <<scanArgs, scanResult>>
trendsVars == <<now, trendsStatus, trendsTable, trendsData>>
topVars    == <<topStatus, topTable, topPerformersData>>
assessVars == <<assessStatus, assessTable, assessmentResultsData>>
aggVars    == <<aggCall, aggResults>>
pendVars   == <<role, user, pendPc, pendIssued, pendTable, pendToast, pendStatus, pendingCandidates>>
ivVars     == <<ivTable, ivToast, ivStatus, upcomingInterviewsRaw, profPc, profIssued, profToast, candidateProfiles>>
navVars    == <<navPc, storedRole, scrollY, isOpen, isScrolled, isAuthenticated, userRole>>
vars       == <<funnelVars, kpiVars, calcVars, scanVars, trendsVars, topVars, assessVars, aggVars, pendVars, ivVars, navVars>>

----------------------------------------------------------------------------
(* Bounds of the model.                                                    *)

MaxCands == 3        \* rows in the candidates table read by the funnel query
MaxCount == 3        \* largest count a KPI count query answers with
MaxKpiCount == 200   \* largest count handed to calcChange on its own
MaxStages == 4       \* stages of a funnel handed to the bottleneck scan on its own
MaxTrendRows == 2    \* rows in the candidates table read by the trends query
MaxPerformers == 6   \* rows in the candidates table read by the top performers query
MaxResults == 3      \* rows in the assessment_results table read by the assessment query
MaxAggRows == 2      \* rows handed to an aggregation invoked on its own
MaxInvocations == 2  \* invocations of an aggregation on the same rows
MaxPending == 2      \* rows in the candidates table read by the pending candidates query
MaxInterviews == 2   \* rows in the interviews table read by the upcoming interviews query

----------------------------------------------------------------------------
(* Generic helpers.                                                        *)

\* undefined / null
None == [defined |-> FALSE]
\* a present value
Some(v) == [defined |-> TRUE, value |-> v]

\* all sequences over S of length at most n
SeqsUpTo(S, n) == UNION {[1..k -> S] : k \in 0..n}

\* Math.round(total / count) for total >= 0, count > 0: the nearest integer,
\* the larger one on a tie
MathRound(total, count) == (2 * total + count) \div (2 * count)

\* n / d * 100 at one decimal, in tenths of a percent:
\* parseFloat(((n / d) * 100).toFixed(1)) for n >= 0, d > 0.
\* toFixed rounds to the nearest tenth, the larger one on a tie.
ToFixed1Pct(n, d) == (2000 * n + d) \div (2 * d)

----------------------------------------------------------------------------
(* Recruitment funnel.                                                     *)

\* statuses a candidate row can carry
Statuses == {"applied", "hr_review", "hr_approved", "training", "sales_task",
             "final_interview", "Hired", "Rejected", "Closed"}

\* funnelStages with 'hr_review' counted as training completed
funnelStages_Widened == <<
    [name |-> "Applied",
     statuses |-> {"applied", "hr_review", "hr_approved", "training",
                   "sales_task", "final_interview", "Hired"}],
    [name |-> "Screening Passed",
     statuses |-> {"hr_approved", "training", "sales_task", "final_interview", "Hired"}],
    [name |-> "Training Completed",
     statuses |-> {"hr_review", "sales_task", "final_interview", "Hired"}],
    [name |-> "Sales Task Passed",
     statuses |-> {"final_interview", "Hired"}],
    [name |-> "Interview Passed (Hired)",
     statuses |-> {"Hired"}] >>

\* funnelStages with rejected candidates counted as applied
funnelStages_WithRejected == <<
    [name |-> "Applied",
     statuses |-> {"applied", "hr_review", "hr_approved", "training",
                   "sales_task", "final_interview", "Hired", "Rejected"}],
    [name |-> "Screening Passed",
     statuses |-> {"hr_approved", "training", "sales_task", "final_interview", "Hired"}],
    [name |-> "Training Completed",
     statuses |-> {"sales_task", "final_interview", "Hired"}],
    [name |-> "Sales Task Passed",
     statuses |-> {"final_interview", "Hired"}],
    [name |-> "Interview Passed (Hired)",
     statuses |-> {"Hired"}] >>

funnelStages == <<
    [name |-> "Applied",
     statuses |-> {"applied", "hr_review", "hr_approved", "training",
                   "sales_task", "final_interview", "Hired"}],
    [name |-> "Screening Passed",
     statuses |-> {"hr_approved", "training", "sales_task", "final_interview", "Hired"}],
    [name |-> "Training Completed",
     statuses |-> {"sales_task", "final_interview", "Hired"}],
    [name |-> "Sales Task Passed",
     statuses |-> {"final_interview", "Hired"}],
    [name |-> "Interview Passed (Hired)",
     statuses |-> {"Hired"}] >>

\* .from('candidates').select('id, status').neq('status', 'Closed')
FunnelQuery(table) == SelectSeq(table, LAMBDA c : c.status # "Closed")

isLoadingFunnel == funnelStatus = "loading"

\* stageCounts: one {name, count} per stage
StageCounts(data) ==
    [s \in 1..Len(funnelStages) |->
        [name |-> funnelStages[s].name,
         count |-> Len(SelectSeq(data, LAMBDA c : c.status \in funnelStages[s].statuses))]]

\* TotalApplied reading the second stage's count
TotalApplied_SecondStage(stageCounts) == stageCounts[2].count

\* stageCounts.find(s => s.name === 'Applied')?.count ?? 0
TotalApplied(stageCounts) ==
    LET hits == {i \in 1..Len(stageCounts) : stageCounts[i].name = "Applied"}
    IN  IF hits = {} THEN 0
        ELSE stageCounts[CHOOSE i \in hits : \A j \in hits : i <= j].count

\* the stage-to-stage rate of stage `index` (1-based here, 0-based in the source)
StageToStageRate(stageCounts, index) ==
    IF index > 1
    THEN LET prevStageCount == stageCounts[index - 1].count
         IN  IF prevStageCount > 0
             THEN ToFixed1Pct(stageCounts[index].count, prevStageCount)
             ELSE 0
    ELSE 1000

\* funnelWithRates
FunnelWithRates(data) ==
    LET stageCounts  == StageCounts(data)
        totalApplied == TotalApplied(stageCounts)
    IN  [index \in 1..Len(stageCounts) |->
            [name  |-> stageCounts[index].name,
             count |-> stageCounts[index].count,
             value |-> IF totalApplied > 0
                       THEN ToFixed1Pct(stageCounts[index].count, totalApplied)
                       ELSE 0,
             stageToStageRate |-> StageToStageRate(stageCounts, index)]]

\* what the funnel memo returns for missing or empty data
EmptyFunnel ==
    [s \in 1..Len(funnelStages) |->
        [name |-> funnelStages[s].name, value |-> 0, count |-> 0, stageToStageRate |-> 0]]

\* the funnel memo as a function of the query data
FunnelOf(data) ==
    IF ~data.defined \/ Len(data.value) = 0
    THEN EmptyFunnel
    ELSE FunnelWithRates(data.value)

calculatedFunnelData == FunnelOf(funnelCandidatesData)

\* BottleneckScan comparing with <=, so that the last of equal rates wins
RECURSIVE BottleneckScan_LastWins(_, _, _, _)
BottleneckScan_LastWins(funnel, i, minRate, bottleneck) ==
    IF i > Len(funnel) THEN bottleneck
    ELSE IF funnel[i].stageToStageRate <= minRate
         THEN BottleneckScan_LastWins(funnel, i + 1, funnel[i].stageToStageRate,
                  Some([name |-> funnel[i].name,
                        prevStageName |-> funnel[i - 1].name,
                        rate |-> funnel[i].stageToStageRate]))
         ELSE BottleneckScan_LastWins(funnel, i + 1, minRate, bottleneck)

\* the scan of the bottleneck memo over stages i..Len(funnel), carrying
\* minRate and the bottleneck found so far
RECURSIVE BottleneckScan(_, _, _, _)
BottleneckScan(funnel, i, minRate, bottleneck) ==
    IF i > Len(funnel) THEN bottleneck
    ELSE IF funnel[i].stageToStageRate < minRate
         THEN BottleneckScan(funnel, i + 1, funnel[i].stageToStageRate,
                  Some([name |-> funnel[i].name,
                        prevStageName |-> funnel[i - 1].name,
                        rate |-> funnel[i].stageToStageRate]))
         ELSE BottleneckScan(funnel, i + 1, minRate, bottleneck)

\* BottleneckOf without the isLoadingFunnel test
BottleneckOf_IgnoreLoading(loading, funnel) ==
    IF Len(funnel) <= 1
    THEN None
    ELSE BottleneckScan(funnel, 2, 1010, None)

\* the bottleneck memo as a function of its two dependencies
BottleneckOf(loading, funnel) ==
    IF loading \/ Len(funnel) <= 1
    THEN None
    ELSE BottleneckScan(funnel, 2, 1010, None)

bottleneckStage == BottleneckOf(isLoadingFunnel, calculatedFunnelData)

\* CountStatus with the third test not chained to the second: a rejected
\* candidate is counted as in progress as well
CountStatus_NoElse(counts, candidate) ==
    IF candidate.status = "Hired"
    THEN [counts EXCEPT !.hired = @ + 1]
    ELSE IF candidate.status = "Rejected"
         THEN [counts EXCEPT !.rejected = @ + 1, !.inProgress = @ + 1]
         ELSE [counts EXCEPT !.inProgress = @ + 1]

\* the body of the forEach of calculatedStatusCounts for one candidate
CountStatus(counts, candidate) ==
    IF candidate.status = "Hired"
    THEN [counts EXCEPT !.hired = @ + 1]
    ELSE IF candidate.status = "Rejected"
         THEN [counts EXCEPT !.rejected = @ + 1]
         ELSE [counts EXCEPT !.inProgress = @ + 1]

\* sourceData.forEach(...) from row i on
RECURSIVE CountStatuses(_, _, _)
CountStatuses(counts, sourceData, i) ==
    IF i > Len(sourceData) THEN counts
    ELSE CountStatuses(CountStatus(counts, sourceData[i]), sourceData, i + 1)

\* the status counts memo for a given query result
StatusCountsOf(data) ==
    LET sourceData == IF data.defined THEN data.value ELSE <<>>
    IN  IF Len(sourceData) = 0
        THEN [hired |-> 0, rejected |-> 0, inProgress |-> 0]
        ELSE CountStatuses([hired |-> 0, rejected |-> 0, inProgress |-> 0], sourceData, 1)

calculatedStatusCounts == StatusCountsOf(funnelCandidatesData)

\* tables the store may hold when the funnel query reads it
CandidateTables == SeqsUpTo([status : Statuses], MaxCands)

\* the funnel queryFn got its rows
FunnelFetchOk ==
    /\ funnelStatus = "loading"
    /\ \E table \in CandidateTables :
           funnelCandidatesData' = Some(FunnelQuery(table))
    /\ funnelStatus' = "success"
    /\ UNCHANGED <<kpiVars, calcVars, scanVars, trendsVars, topVars, assessVars, aggVars, pendVars, ivVars, navVars>>

\* the funnel queryFn threw: the store answered with an error
FunnelFetchError ==
    /\ funnelStatus = "loading"
    /\ funnelStatus' = "error"
    /\ UNCHANGED <<funnelCandidatesData, kpiVars, calcVars, scanVars, trendsVars, topVars, assessVars, aggVars, pendVars, ivVars, navVars>>

InitFunnel ==
    /\ funnelStatus = "loading"
    /\ funnelCandidatesData = None

NextFunnel == FunnelFetchOk \/ FunnelFetchError

----------------------------------------------------------------------------
(* KPI counts and their period-over-period change.                         *)
(* Every number of this section is held in tenths: a count n is 10 * n,    *)
(* a one-decimal conversion rate r is 10 * r.                              *)

Tenths(n) == 10 * n

\* Arguments <<current, previous>> (in tenths) for which the IEEE double
\* ((current - previous) / previous) * 100 lands just below a value that is
\* exactly k + 1/2, so that Math.round yields k and not k + 1.  Listed for
\* all counts up to 202 and all conversion rates of counts up to 5.
DoubleBelowTie ==
    { <<333, 200>>, <<1667, 200>>, <<290, 400>>, <<630, 400>>, <<810, 400>>,
      <<910, 400>>, <<1270, 400>>, <<1370, 400>>, <<333, 600>>, <<580, 800>>,
      <<1260, 800>>, <<1620, 800>>, <<1820, 800>>, <<870, 1200>>,
      <<1890, 1200>>, <<1160, 1600>>, <<890, 2000>>, <<910, 2000>>,
      <<1450, 2000>>, <<1930, 2000>> }

\* RoundPctChange with Math.floor in place of Math.round
RoundPctChange_Floor(current, previous) ==
    (100 * (current - previous)) \div previous

\* Math.round(((current - previous) / previous) * 100) for previous > 0:
\* Math.round is floor(x + 1/2)
RoundPctChange(current, previous) ==
    LET exact == (200 * (current - previous) + previous) \div (2 * previous)
    IN  IF <<current, previous>> \in DoubleBelowTie THEN exact - 1 ELSE exact

\* calcChange answering 0 whenever previous is 0
calcChange_ZeroPrevious(current, previous) ==
    IF previous = 0
    THEN 0
    ELSE RoundPctChange(current, previous)

calcChange(current, previous) ==
    IF previous = 0
    THEN (IF current > 0 THEN 100 ELSE 0)
    ELSE RoundPctChange(current, previous)

\* ConversionRate taking a month without applications for a full conversion
ConversionRate_Full(hired, applications) ==
    IF applications > 0 THEN ToFixed1Pct(hired, applications) ELSE 1000

\* hired / applications * 100 at one decimal, 0 without applications
ConversionRate(hired, applications) ==
    IF applications > 0 THEN ToFixed1Pct(hired, applications) ELSE 0

\* ConversionRateChange without the test for a previous rate of 0
ConversionRateChange_NoGuard(conversionRate, conversionRatePrev) ==
    IF conversionRatePrev = 0
    THEN 0
    ELSE RoundPctChange(conversionRate, conversionRatePrev)

\* the expression of the conversionRateChange field, written out in the source
ConversionRateChange(conversionRate, conversionRatePrev) ==
    IF conversionRatePrev = 0
    THEN (IF conversionRate > 0 THEN 100 ELSE 0)
    ELSE RoundPctChange(conversionRate, conversionRatePrev)

\* the metrics memo as a function of the query data
MetricsOf(data) ==
    IF ~data.defined
    THEN [totalCandidates |-> 0, applicationsThisMonth |-> 0, hiredThisMonth |-> 0,
          conversionRate |-> 0, totalCandidatesChange |-> 0,
          applicationsThisMonthChange |-> 0, hiredThisMonthChange |-> 0,
          conversionRateChange |-> 0]
    ELSE
      LET kpi == data.value
          conversionRate ==
              ConversionRate(kpi.hiredThisMonth, kpi.applicationsThisMonth)
          conversionRatePrev ==
              ConversionRate(kpi.hiredPrevMonth, kpi.applicationsPrevMonth)
      IN [totalCandidates |-> Tenths(kpi.totalActiveCandidates),
          applicationsThisMonth |-> Tenths(kpi.applicationsThisMonth),
          hiredThisMonth |-> Tenths(kpi.hiredThisMonth),
          conversionRate |-> conversionRate,
          totalCandidatesChange |->
              calcChange(Tenths(kpi.totalActiveCandidates),
                         Tenths(kpi.totalActiveCandidatesPrev)),
          applicationsThisMonthChange |->
              calcChange(Tenths(kpi.applicationsThisMonth),
                         Tenths(kpi.applicationsPrevMonth)),
          hiredThisMonthChange |->
              calcChange(Tenths(kpi.hiredThisMonth), Tenths(kpi.hiredPrevMonth)),
          conversionRateChange |->
              ConversionRateChange(conversionRate, conversionRatePrev)]

calculatedMetrics == MetricsOf(kpiData)

\* what one count query ({ count: 'exact', head: true }) can answer
CountReplies ==
    {[error |-> FALSE, count |-> Some(n)] : n \in 0..MaxCount}
        \cup {[error |-> TRUE, count |-> None]}

\* count ?? 0
OrZero(count) == IF count.defined THEN count.value ELSE 0

\* SomeError looking at the errors of the current month's queries only
SomeError_CurrentMonth(replies) == \E i \in 1..3 : replies[i].error

\* Object.values(allErrors).some(e => e !== null)
SomeError(replies) == \E i \in 1..Len(replies) : replies[i].error

\* the object the KPI queryFn returns, from the six replies in query order
KpiResult(replies) ==
    [totalActiveCandidates     |-> OrZero(replies[1].count),
     applicationsThisMonth     |-> OrZero(replies[2].count),
     hiredThisMonth            |-> OrZero(replies[3].count),
     totalActiveCandidatesPrev |-> OrZero(replies[4].count),
     applicationsPrevMonth     |-> OrZero(replies[5].count),
     hiredPrevMonth            |-> OrZero(replies[6].count)]

\* what the count of the rows with status # 'Closed' can answer
TotalActiveReplies(active) ==
    {[error |-> FALSE, count |-> Some(active)], [error |-> TRUE, count |-> None]}

\* TotalActivePrevReplies counting the rows of another period
TotalActivePrevReplies_OtherRows(active) == CountReplies

\* what the count behind totalActiveCandidatesPrev can answer: the same
\* query as the one behind totalActiveCandidates
TotalActivePrevReplies(active) == TotalActiveReplies(active)

\* what the count query number q of the queryFn can answer
RepliesTo(q) ==
    IF q = 1 THEN TotalActiveReplies(storeActive)
    ELSE IF q = 4 THEN TotalActivePrevReplies(storeActive)
    ELSE CountReplies

\* one of the first five count queries is answered; the queryFn awaits the next
KpiCountReply ==
    /\ kpiStatus = "loading"
    /\ kpiPc < 5
    /\ \E reply \in RepliesTo(kpiPc + 1) : kpiReplies' = Append(kpiReplies, reply)
    /\ kpiPc' = kpiPc + 1
    /\ UNCHANGED <<kpiStatus, kpiData, storeActive, storeWrittenBetween, funnelVars, calcVars, scanVars, trendsVars, topVars, assessVars, aggVars, pendVars, ivVars, navVars>>

\* the sixth count query is answered and the queryFn runs to its end:
\* it throws when any reply carries an error, and returns the counts otherwise
KpiLastReply ==
    /\ kpiStatus = "loading"
    /\ kpiPc = 5
    /\ \E reply \in RepliesTo(6) :
         LET replies == Append(kpiReplies, reply)
         IN  /\ kpiReplies' = replies
             /\ IF SomeError(replies)
                THEN /\ kpiStatus' = "error"
                     /\ kpiData' = kpiData
                ELSE /\ kpiStatus' = "success"
                     /\ kpiData' = Some(KpiResult(replies))
    /\ kpiPc' = 6
    /\ UNCHANGED <<storeActive, storeWrittenBetween, funnelVars, calcVars, scanVars, trendsVars, topVars, assessVars, aggVars, pendVars, ivVars, navVars>>

\* while the fetch is under way another client of the store adds a candidate,
\* removes or closes one, or moves one between two statuses other than
\* 'Closed'
StoreWrite ==
    /\ kpiPc < 6
    /\ \E active \in {storeActive - 1, storeActive, storeActive + 1} \cap 0..MaxCount :
          storeActive' = active
    /\ storeWrittenBetween' = (storeWrittenBetween \/ kpiPc \in 1..3)
    /\ UNCHANGED <<kpiPc, kpiReplies, kpiStatus, kpiData,
                   funnelVars, calcVars, scanVars, trendsVars, topVars, assessVars, aggVars, pendVars, ivVars, navVars>>

InitKpi ==
    /\ kpiPc = 0
    /\ kpiReplies = <<>>
    /\ kpiStatus = "loading"
    /\ kpiData = None
    /\ storeActive = 0
    /\ storeWrittenBetween = FALSE

NextKpi == KpiCountReply \/ KpiLastReply \/ StoreWrite

----------------------------------------------------------------------------
(* calcChange on its own: the arguments are drawn from all pairs of        *)
(* counts, and the function is applied to them.                            *)

CalcCounts == 0..MaxKpiCount

ApplyCalcChange ==
    /\ ~calcResult.defined
    /\ calcResult' = Some(calcChange(Tenths(calcArgs.current), Tenths(calcArgs.previous)))
    /\ UNCHANGED <<calcArgs, funnelVars, kpiVars, scanVars, trendsVars, topVars, assessVars, aggVars, pendVars, ivVars, navVars>>

InitCalc ==
    /\ calcArgs = [current |-> 0, previous |-> 0]
    /\ calcResult = None

InitCalcAny ==
    /\ calcArgs \in [current : CalcCounts, previous : CalcCounts]
    /\ calcResult = None

NextCalc == ApplyCalcChange

----------------------------------------------------------------------------
(* The bottleneck scan on its own: it is handed any funnel view model of   *)
(* up to MaxStages stages, loading or not.                                 *)

\* stage-to-stage rates (tenths of a percent) the scan is tried on
ScanRates == {0, 300, 800, 900, 1000}

\* a funnel view model with the given rates, stage i named i
FunnelOfRates(rates) ==
    [i \in 1..Len(rates) |->
        [name |-> i, count |-> 0, value |-> 0, stageToStageRate |-> rates[i]]]

ApplyBottleneck ==
    /\ ~scanResult.defined
    /\ scanResult' = Some(BottleneckOf(scanArgs.loading, FunnelOfRates(scanArgs.rates)))
    /\ UNCHANGED <<scanArgs, funnelVars, kpiVars, calcVars, trendsVars, topVars, assessVars, aggVars, pendVars, ivVars, navVars>>

InitScan ==
    /\ scanArgs = [loading |-> TRUE, rates |-> <<>>]
    /\ scanResult = None

InitScanAny ==
    /\ scanArgs \in [loading : BOOLEAN, rates : SeqsUpTo(ScanRates, MaxStages)]
    /\ scanResult = None

NextScan == ApplyBottleneck

----------------------------------------------------------------------------
(* Hiring trends.  A date is [y, m, d]; a timestamp is held at the         *)
(* precision of its date.                                                  *)

IsLeap(y) == (y % 4 = 0 /\ y % 100 # 0) \/ y % 400 = 0

DaysInMonth(y, m) ==
    IF m = 2 THEN (IF IsLeap(y) THEN 29 ELSE 28)
    ELSE IF m \in {4, 6, 9, 11} THEN 30 ELSE 31

\* subMonths as Date.prototype.setMonth computes it: a day past the end of
\* the target month runs over into the month after it
subMonths_Overflow(date, amount) ==
    LET total == date.y * 12 + (date.m - 1) - amount
        y == total \div 12
        m == (total % 12) + 1
        dim == DaysInMonth(y, m)
    IN  IF date.d <= dim
        THEN [y |-> y, m |-> m, d |-> date.d]
        ELSE [y |-> (total + 1) \div 12, m |-> ((total + 1) % 12) + 1, d |-> date.d - dim]

\* date-fns subMonths: the same day of the month `amount` months earlier,
\* or that month's last day when it is shorter
subMonths(date, amount) ==
    LET total == date.y * 12 + (date.m - 1) - amount
        y == total \div 12
        m == (total % 12) + 1
        dim == DaysInMonth(y, m)
    IN  [y |-> y, m |-> m, d |-> IF date.d < dim THEN date.d ELSE dim]

\* date-fns startOfMonth
startOfMonth(date) == [y |-> date.y, m |-> date.m, d |-> 1]

\* formatISO(date, { representation: 'date' }): 'YYYY-MM-DD', ordered as text
IsoDate(date) == <<date.y, date.m, date.d>>

\* the order of two 'YYYY-MM-DD' texts (and of the instants they name)
IsoLeq(a, b) ==
    \/ a[1] < b[1]
    \/ a[1] = b[1] /\ a[2] < b[2]
    \/ a[1] = b[1] /\ a[2] = b[2] /\ a[3] <= b[3]

\* iso.substring(0, 7): 'YYYY-MM'
MonthKey(iso) == <<iso[1], iso[2]>>

\* date.toLocaleString('default', { month: 'short' })
MonthShort(date) ==
    <<"Jan", "Feb", "Mar", "Apr", "May", "Jun",
      "Jul", "Aug", "Sep", "Oct", "Nov", "Dec">>[date.m]

\* twelveMonthsAgo: the start of the 12-month period
TwelveMonthsAgo(currentDate) == IsoDate(subMonths(currentDate, 11))

\* TrendsQuery answering with the rows without updated_at as well
TrendsQuery_KeepsNull(table, twelveMonthsAgo) ==
    SelectSeq(table, LAMBDA c :
        ~c.updated_at.defined \/ IsoLeq(twelveMonthsAgo, c.updated_at.value))

\* .from('candidates').select('updated_at, status').gte('updated_at', twelveMonthsAgo)
\* (a row without updated_at satisfies no comparison)
TrendsQuery(table, twelveMonthsAgo) ==
    SelectSeq(table, LAMBDA c :
        c.updated_at.defined /\ IsoLeq(twelveMonthsAgo, c.updated_at.value))

\* monthlyCounts[monthKey] = {...}: a new key is added after the others,
\* a key already present keeps its place
InsertKey(keys, monthKey) ==
    IF \E k \in 1..Len(keys) : keys[k] = monthKey
    THEN keys
    ELSE Append(keys, monthKey)

\* the keys monthlyCounts holds after the initialisation loop has run from
\* i down to last
RECURSIVE InitKeys(_, _, _, _)
InitKeys(currentDate, i, last, keys) ==
    IF i < last THEN keys
    ELSE InitKeys(currentDate, i - 1, last,
                  InsertKey(keys, MonthKey(IsoDate(subMonths(currentDate, i)))))

\* WindowKeys with the loop running from i = 12 down to 1
WindowKeys_FromTwelve(currentDate) == InitKeys(currentDate, 12, 1, <<>>)

\* the month keys of monthlyCounts in insertion order (i = 11 down to 0),
\* which is the order Object.values reads them in
WindowKeys(currentDate) == InitKeys(currentDate, 11, 0, <<>>)

\* monthLabels
MonthLabels(currentDate) ==
    [k \in 1..12 |-> MonthShort(subMonths(currentDate, 12 - k))]

\* monthlyCounts after the initialisation loop: one entry per key
ZeroCounts(keys) == [k \in 1..Len(keys) |-> [candidates |-> 0, hires |-> 0]]

\* BucketOf with a key outside the window falling into the newest bucket
BucketOf_Newest(keys, key) ==
    IF \E k \in 1..Len(keys) : keys[k] = key
    THEN CHOOSE k \in 1..Len(keys) : keys[k] = key
    ELSE Len(keys)

\* the index of monthlyCounts[key], 0 when the key is absent
BucketOf(keys, key) ==
    IF \E k \in 1..Len(keys) : keys[k] = key
    THEN CHOOSE k \in 1..Len(keys) : keys[k] = key
    ELSE 0

\* CountCandidate without the test of the status: every row of the window
\* counts as a hire
CountCandidate_AnyStatus(counts, keys, candidate, twelveMonthsAgo) ==
    LET b == BucketOf(keys, MonthKey(candidate.updated_at.value))
    IN  IF b # 0 /\ IsoLeq(twelveMonthsAgo, candidate.updated_at.value)
        THEN [counts EXCEPT ![b].candidates = @ + 1, ![b].hires = @ + 1]
        ELSE counts

\* CountCandidate with the two counts exclusive: a row counted as a hire is
\* not counted as a candidate
CountCandidate_HireOrTouch(counts, keys, candidate, twelveMonthsAgo) ==
    LET b == BucketOf(keys, MonthKey(candidate.updated_at.value))
    IN  IF b = 0 THEN counts
        ELSE IF /\ candidate.status = "Hired"
                /\ IsoLeq(twelveMonthsAgo, candidate.updated_at.value)
             THEN [counts EXCEPT ![b].hires = @ + 1]
             ELSE [counts EXCEPT ![b].candidates = @ + 1]

\* the body of the forEach for one candidate
CountCandidate(counts, keys, candidate, twelveMonthsAgo) ==
    LET updatedMonthKey == MonthKey(candidate.updated_at.value)
        b == BucketOf(keys, updatedMonthKey)
        counted == IF b # 0
                   THEN [counts EXCEPT ![b].candidates = @ + 1]
                   ELSE counts
    IN  IF /\ candidate.status = "Hired"
           /\ b # 0
           /\ IsoLeq(twelveMonthsAgo, candidate.updated_at.value)
        THEN [counted EXCEPT ![b].hires = @ + 1]
        ELSE counted

\* (data || []).forEach(...) from row i on
RECURSIVE Populate(_, _, _, _, _)
Populate(counts, keys, data, i, twelveMonthsAgo) ==
    IF i > Len(data) THEN counts
    ELSE Populate(CountCandidate(counts, keys, data[i], twelveMonthsAgo),
                  keys, data, i + 1, twelveMonthsAgo)

\* the client-side grouping by month of the rows the query returned
BinTrends(currentDate, data) ==
    LET twelveMonthsAgo == TwelveMonthsAgo(currentDate)
        keys == WindowKeys(currentDate)
        monthlyCounts == Populate(ZeroCounts(keys), keys, data, 1, twelveMonthsAgo)
    IN  [candidates |-> [k \in 1..Len(monthlyCounts) |-> monthlyCounts[k].candidates],
         hires      |-> [k \in 1..Len(monthlyCounts) |-> monthlyCounts[k].hires],
         months     |-> MonthLabels(currentDate)]

\* what the trends queryFn returns when the store holds `table`
TrendsOf(currentDate, table) ==
    BinTrends(currentDate, TrendsQuery(table, TwelveMonthsAgo(currentDate)))

isLoadingTrends == trendsStatus = "loading"

\* the trends memo
calculatedHiringTrends ==
    IF isLoadingTrends \/ ~trendsData.defined
    THEN [candidates |-> [k \in 1..12 |-> 0],
          hires      |-> [k \in 1..12 |-> 0],
          months     |-> MonthLabels(now)]
    ELSE trendsData.value

\* days on which the page is loaded
NowDates ==
    { [y |-> 2026, m |-> 11, d |-> 1],  [y |-> 2026, m |-> 11, d |-> 15],
      [y |-> 2026, m |-> 3,  d |-> 31], [y |-> 2024, m |-> 2,  d |-> 29] }

\* how many months before the current one a row of the table is dated
\* (-1: a row stamped in the month after the current one)
RowMonthsBack == {-1, 0, 1, 10, 11, 12, 13}

\* the dates of the rows of the table: in each such month its first day, its
\* last day, and the days of the month `currentDate` and the day before it fall on
RowDates(currentDate) ==
    UNION { LET first == subMonths(startOfMonth(currentDate), back)
                dim == DaysInMonth(first.y, first.m)
            IN  { [first EXCEPT !.d = d] :
                    d \in {1, dim} \cup ({currentDate.d - 1, currentDate.d} \cap 1..dim) }
          : back \in RowMonthsBack }

TrendRows(currentDate) ==
    [status : {"applied", "Hired"},
     updated_at : {Some(IsoDate(date)) : date \in RowDates(currentDate)}]
        \cup {[status |-> "applied", updated_at |-> None]}

\* candidate.updated_at.substring(0, 7) on a row whose updated_at is null
\* raises a TypeError
SubstringThrows(data) == \E i \in 1..Len(data) : ~data[i].updated_at.defined

\* the trends queryFn got its rows and binned them; an exception raised on
\* the way makes the query fail
TrendsFetchOk ==
    /\ trendsStatus = "loading"
    /\ \E table \in SeqsUpTo(TrendRows(now), MaxTrendRows) :
          /\ trendsTable' = Some(table)
          /\ IF SubstringThrows(TrendsQuery(table, TwelveMonthsAgo(now)))
             THEN trendsStatus' = "error" /\ trendsData' = trendsData
             ELSE trendsStatus' = "success" /\ trendsData' = Some(TrendsOf(now, table))
    /\ UNCHANGED <<now, funnelVars, kpiVars, calcVars, scanVars, topVars, assessVars, aggVars, pendVars, ivVars, navVars>>

\* the trends queryFn threw: the store answered with an error
TrendsFetchError ==
    /\ trendsStatus = "loading"
    /\ trendsStatus' = "error"
    /\ UNCHANGED <<now, trendsTable, trendsData, funnelVars, kpiVars, calcVars, scanVars, topVars, assessVars, aggVars, pendVars, ivVars, navVars>>

InitTrends ==
    /\ now = [y |-> 2026, m |-> 11, d |-> 1]
    /\ trendsStatus = "loading"
    /\ trendsTable = None
    /\ trendsData = None

InitTrendsAny ==
    /\ now \in NowDates
    /\ trendsStatus = "loading"
    /\ trendsTable = None
    /\ trendsData = None

NextTrends == TrendsFetchOk \/ TrendsFetchError

----------------------------------------------------------------------------
(* Top performers.                                                         *)
(* A row of the candidates table is                                        *)
(* [id, status, candidate_profile, assessment_results]: the profile is     *)
(* None or Some([name]), the results a sequence of [score], a score being  *)
(* None (null) or Some(number).                                            *)

\* .slice(0, 5)
TopN == 5

\* .select('id, candidate_profile:profiles(name), assessment_results (score)')
\* .not('assessment_results.score', 'is', null).neq('status', 'Closed'):
\* the filter on the embedded resource drops the embedded rows with a null
\* score, the candidate itself stays
TopQuery(table) ==
    LET open == SelectSeq(table, LAMBDA c : c.status # "Closed")
    IN  [k \in 1..Len(open) |->
            [id |-> open[k].id,
             candidate_profile |-> open[k].candidate_profile,
             assessment_results |->
                 SelectSeq(open[k].assessment_results, LAMBDA r : r.score.defined)]]

\* scores.reduce((a, b) => a + b, 0)
RECURSIVE SumScores(_)
SumScores(scores) ==
    IF Len(scores) = 0 THEN 0
    ELSE scores[1] + SumScores(Tail(scores))

\* the callback of .map: the candidate with its rounded mean score
WithAvgScore(candidate) ==
    LET nonNull == SelectSeq(candidate.assessment_results, LAMBDA r : r.score.defined)
        scores == [k \in 1..Len(nonNull) |-> nonNull[k].score.value]
        avgScore == IF Len(scores) > 0
                    THEN MathRound(SumScores(scores), Len(scores))
                    ELSE 0
    IN  [id |-> candidate.id,
         name |-> IF candidate.candidate_profile.defined
                  THEN candidate.candidate_profile.value.name
                  ELSE "Unknown",
         score |-> avgScore]

\* HasScore letting a score of 0 through
HasScore_OrZero(c) == c.score >= 0

\* the callback of .filter
HasScore(c) == c.score > 0

\* one step of the sort: c goes behind the entries whose score is not lower
InsertByScore(sorted, c) ==
    LET ahead == Cardinality({k \in 1..Len(sorted) : sorted[k].score >= c.score})
    IN  SubSeq(sorted, 1, ahead) \o <<c>> \o SubSeq(sorted, ahead + 1, Len(sorted))

\* .sort((a, b) => b.score - a.score): descending, equal scores keep their order
RECURSIVE SortByScore(_, _, _)
SortByScore(entries, i, sorted) ==
    IF i > Len(entries) THEN sorted
    ELSE SortByScore(entries, i + 1, InsertByScore(sorted, entries[i]))

\* .slice(0, 5)
Slice(entries, n) == SubSeq(entries, 1, IF Len(entries) < n THEN Len(entries) ELSE n)

\* candidatesWithAvgScore for the rows the query returned
TopPerformersOf(data) ==
    LET mapped == [k \in 1..Len(data) |-> WithAvgScore(data[k])]
        filtered == SelectSeq(mapped, HasScore)
    IN  Slice(SortByScore(filtered, 1, <<>>), TopN)

\* what a row of the table can be, apart from its id
PerformerKinds ==
    { [status |-> "applied", candidate_profile |-> Some([name |-> "Ann"]),
       assessment_results |-> <<>>],
      [status |-> "training", candidate_profile |-> None,
       assessment_results |-> <<[score |-> None], [score |-> None]>>],
      [status |-> "training", candidate_profile |-> Some([name |-> "Bob"]),
       assessment_results |-> <<[score |-> Some(0)]>>],
      [status |-> "sales_task", candidate_profile |-> Some([name |-> "Cy"]),
       assessment_results |-> <<[score |-> Some(70)]>>],
      [status |-> "Hired", candidate_profile |-> None,
       assessment_results |-> <<[score |-> Some(90)], [score |-> None], [score |-> Some(100)]>>],
      [status |-> "Closed", candidate_profile |-> Some([name |-> "Di"]),
       assessment_results |-> <<[score |-> Some(100)]>>] }

\* the table whose k-th row is of the k-th kind; ids follow the table's order
TableOfKinds(kinds) ==
    [k \in 1..Len(kinds) |->
        [id |-> k, status |-> kinds[k].status,
         candidate_profile |-> kinds[k].candidate_profile,
         assessment_results |-> kinds[k].assessment_results]]

\* the table of candidates with one score each
TableOfScores(scores) ==
    [k \in 1..Len(scores) |->
        [id |-> k, status |-> "training",
         candidate_profile |-> Some([name |-> "Eve"]),
         assessment_results |-> <<[score |-> Some(scores[k])]>>]]

\* tables the store may hold when the top performers query reads it
PerformerTables ==
    {TableOfKinds(kinds) : kinds \in SeqsUpTo(PerformerKinds, MaxPerformers)}
        \cup {TableOfScores(<<90, 85, 95, 70, 60, 100>>)}
        \cup {TableOfKinds(<< [status |-> "training", candidate_profile |-> None,
                               assessment_results |->
                                   <<[score |-> Some(1)], [score |-> Some(0)],
                                     [score |-> Some(0)]>>] >>)}

\* the top performers queryFn got its rows and ranked them
TopFetchOk ==
    /\ topStatus = "loading"
    /\ \E table \in PerformerTables :
          /\ topTable' = Some(table)
          /\ topPerformersData' = Some(TopPerformersOf(TopQuery(table)))
    /\ topStatus' = "success"
    /\ UNCHANGED <<funnelVars, kpiVars, calcVars, scanVars, trendsVars, assessVars, aggVars, pendVars, ivVars, navVars>>

\* the top performers queryFn threw: the store answered with an error
TopFetchError ==
    /\ topStatus = "loading"
    /\ topStatus' = "error"
    /\ UNCHANGED <<topTable, topPerformersData, funnelVars, kpiVars, calcVars, scanVars, trendsVars, assessVars, aggVars, pendVars, ivVars, navVars>>

InitTop ==
    /\ topStatus = "loading"
    /\ topTable = None
    /\ topPerformersData = None

NextTop == TopFetchOk \/ TopFetchError

----------------------------------------------------------------------------
(* Assessment performance.                                                 *)
(* A row of assessment_results is [score, assessments]: the score is None  *)
(* (null) or Some(number), the embedded assessment None or Some([title]).  *)

assessmentStages ==
    <<"Initial Screening", "Product Knowledge", "Sales Techniques",
      "Objection Handling", "Final Assessment">>

\* .from('assessment_results').select('score, assessment_id, assessments (title)')
\* .not('score', 'is', null)
AssessmentQuery(table) == SelectSeq(table, LAMBDA r : r.score.defined)

\* StageResults taking a result without an assessment for one of every stage
StageResults_Untitled(data, stageName) ==
    SelectSeq(data, LAMBDA result :
        /\ ~result.assessments.defined \/ result.assessments.value.title = stageName
        /\ result.score.defined)

\* assessmentResultsData.filter(result =>
\*     result.assessments?.title === stageName && result.score !== null)
StageResults(data, stageName) ==
    SelectSeq(data, LAMBDA result :
        /\ result.assessments.defined
        /\ result.assessments.value.title = stageName
        /\ result.score.defined)

\* stageResults.reduce((sum, result) => sum + (result.score ?? 0), 0)
RECURSIVE TotalScore(_)
TotalScore(stageResults) ==
    IF Len(stageResults) = 0 THEN 0
    ELSE (IF stageResults[1].score.defined THEN stageResults[1].score.value ELSE 0)
            + TotalScore(Tail(stageResults))

\* the callback of assessmentStages.map: {name, avgScore, submissions} of a stage
StagePerformance(data, stageName) ==
    LET stageResults == StageResults(data, stageName)
        submissions == Len(stageResults)
        avgScore == IF submissions > 0
                    THEN MathRound(TotalScore(stageResults), submissions)
                    ELSE 0
    IN  [name |-> stageName, avgScore |-> avgScore, submissions |-> submissions]

\* the assessment performance memo for a given query result
AssessmentPerformanceOf(data) ==
    IF ~data.defined \/ Len(data.value) = 0
    THEN [s \in 1..Len(assessmentStages) |->
            [name |-> assessmentStages[s], avgScore |-> 0, submissions |-> 0]]
    ELSE [s \in 1..Len(assessmentStages) |->
            StagePerformance(data.value, assessmentStages[s])]

calculatedAssessmentPerformance == AssessmentPerformanceOf(assessmentResultsData)

\* what the embedded assessment of a result can be: none, one of two of the
\* fixed names, the first name in another case, or a title not in the list
ResultAssessments ==
    {None} \cup {Some([title |-> t]) :
                    t \in {"Initial Screening", "Final Assessment",
                           "initial screening", "Onboarding Quiz"}}

ResultScores == {None, Some(70), Some(75), Some(80)}

\* tables the store may hold when the assessment query reads it
ResultTables ==
    SeqsUpTo([score : ResultScores, assessments : ResultAssessments], MaxResults)

\* the assessment queryFn got its rows
AssessFetchOk ==
    /\ assessStatus = "loading"
    /\ \E table \in ResultTables :
          /\ assessTable' = Some(table)
          /\ assessmentResultsData' = Some(AssessmentQuery(table))
    /\ assessStatus' = "success"
    /\ UNCHANGED <<funnelVars, kpiVars, calcVars, scanVars, trendsVars, topVars, aggVars, pendVars, ivVars, navVars>>

\* the assessment queryFn threw: the store answered with an error
AssessFetchError ==
    /\ assessStatus = "loading"
    /\ assessStatus' = "error"
    /\ UNCHANGED <<assessTable, assessmentResultsData,
                   funnelVars, kpiVars, calcVars, scanVars, trendsVars, topVars, aggVars, pendVars, ivVars, navVars>>

InitAssess ==
    /\ assessStatus = "loading"
    /\ assessTable = None
    /\ assessmentResultsData = None

NextAssess == AssessFetchOk \/ AssessFetchError

----------------------------------------------------------------------------
(* The aggregations on their own: one of them is invoked up to             *)
(* MaxInvocations times on the same rows, the clock advancing in between.  *)

\* the six counts of a KPI query result
KpiInputs ==
    [totalActiveCandidates : {0, 2}, applicationsThisMonth : {0, 2},
     hiredThisMonth : {0, 1}, totalActiveCandidatesPrev : {0, 1},
     applicationsPrevMonth : {0, 2}, hiredPrevMonth : {0, 1}]

\* candidate rows as the funnel query returns them
FunnelInputs ==
    {None} \cup {Some(rows) : rows \in
        SeqsUpTo([status : {"applied", "training", "Hired", "Rejected"}], MaxAggRows)}

\* assessment results as the assessment query returns them
AssessmentInputs ==
    {None} \cup {Some(AssessmentQuery(table)) : table \in
        SeqsUpTo([score : {None, Some(75), Some(80)},
                  assessments : {None, Some([title |-> "Initial Screening"])}],
                 MaxAggRows)}

\* candidate rows as the trends query returns them on the given date
TrendInputs(currentDate) ==
    {TrendsQuery(table, TwelveMonthsAgo(currentDate)) :
        table \in SeqsUpTo(TrendRows(currentDate), 1)}

\* candidate rows as the top performers query returns them
TopInputs ==
    {TopQuery(TableOfKinds(kinds)) : kinds \in SeqsUpTo(PerformerKinds, MaxAggRows)}

Aggregations == {"kpi", "funnel", "bottleneck", "assessment", "trend", "status", "top"}

\* the rows the aggregation named agg is tried on
AggInputs(agg, currentDate) ==
    CASE agg = "kpi" -> {None} \cup {Some(kpi) : kpi \in KpiInputs}
      [] agg = "funnel" -> FunnelInputs
      [] agg = "bottleneck" -> [loading : BOOLEAN, data : FunnelInputs]
      [] agg = "assessment" -> AssessmentInputs
      [] agg = "trend" -> TrendInputs(currentDate)
      [] agg = "status" -> FunnelInputs
      [] agg = "top" -> TopInputs

\* the aggregation named agg can be invoked once more
CanInvoke(agg) == aggCall.agg = agg /\ Len(aggResults) < MaxInvocations

\* the invocation returned value
Returned(value) == aggResults' = Append(aggResults, [at |-> now, value |-> value])

InvokeKpi ==
    /\ CanInvoke("kpi")
    /\ Returned(MetricsOf(aggCall.rows))
    /\ UNCHANGED <<aggCall, funnelVars, kpiVars, calcVars, scanVars, trendsVars, topVars, assessVars, pendVars, ivVars, navVars>>

InvokeFunnel ==
    /\ CanInvoke("funnel")
    /\ Returned(FunnelOf(aggCall.rows))
    /\ UNCHANGED <<aggCall, funnelVars, kpiVars, calcVars, scanVars, trendsVars, topVars, assessVars, pendVars, ivVars, navVars>>

InvokeBottleneck ==
    /\ CanInvoke("bottleneck")
    /\ Returned(BottleneckOf(aggCall.rows.loading, FunnelOf(aggCall.rows.data)))
    /\ UNCHANGED <<aggCall, funnelVars, kpiVars, calcVars, scanVars, trendsVars, topVars, assessVars, pendVars, ivVars, navVars>>

InvokeAssessment ==
    /\ CanInvoke("assessment")
    /\ Returned(AssessmentPerformanceOf(aggCall.rows))
    /\ UNCHANGED <<aggCall, funnelVars, kpiVars, calcVars, scanVars, trendsVars, topVars, assessVars, pendVars, ivVars, navVars>>

\* InvokeTrends with monthlyCounts kept from one invocation to the next
InvokeTrends_SharedCounts ==
    /\ CanInvoke("trend")
    /\ LET trends == BinTrends(now, aggCall.rows)
       IN  IF Len(aggResults) = 0
           THEN Returned(trends)
           ELSE LET kept == aggResults[Len(aggResults)].value
                IN  Returned([candidates |-> [k \in 1..12 |->
                                  kept.candidates[k] + trends.candidates[k]],
                              hires |-> [k \in 1..12 |-> kept.hires[k] + trends.hires[k]],
                              months |-> trends.months])
    /\ UNCHANGED <<aggCall, funnelVars, kpiVars, calcVars, scanVars, trendsVars, topVars, assessVars, pendVars, ivVars, navVars>>

InvokeTrends ==
    /\ CanInvoke("trend")
    /\ Returned(BinTrends(now, aggCall.rows))
    /\ UNCHANGED <<aggCall, funnelVars, kpiVars, calcVars, scanVars, trendsVars, topVars, assessVars, pendVars, ivVars, navVars>>

InvokeStatus ==
    /\ CanInvoke("status")
    /\ Returned(StatusCountsOf(aggCall.rows))
    /\ UNCHANGED <<aggCall, funnelVars, kpiVars, calcVars, scanVars, trendsVars, topVars, assessVars, pendVars, ivVars, navVars>>

InvokeTop ==
    /\ CanInvoke("top")
    /\ Returned(TopPerformersOf(aggCall.rows))
    /\ UNCHANGED <<aggCall, funnelVars, kpiVars, calcVars, scanVars, trendsVars, topVars, assessVars, pendVars, ivVars, navVars>>

\* time passes between two invocations
ClockAdvance ==
    /\ Len(aggResults) < MaxInvocations
    /\ \E later \in NowDates :
          /\ IsoDate(later) # IsoDate(now)
          /\ IsoLeq(IsoDate(now), IsoDate(later))
          /\ now' = later
    /\ UNCHANGED <<trendsStatus, trendsTable, trendsData, aggVars,
                   funnelVars, kpiVars, calcVars, scanVars, topVars, assessVars, pendVars, ivVars, navVars>>

InitAgg ==
    /\ aggCall = [agg |-> "status", rows |-> None]
    /\ aggResults = <<>>

InitAggAny ==
    /\ \E agg \in Aggregations :
          \E rows \in AggInputs(agg, now) : aggCall = [agg |-> agg, rows |-> rows]
    /\ aggResults = <<>>

NextAgg ==
    \/ InvokeKpi \/ InvokeFunnel \/ InvokeBottleneck \/ InvokeAssessment
    \/ InvokeTrends \/ InvokeStatus \/ InvokeTop \/ ClockAdvance

----------------------------------------------------------------------------
(* The role dashboard (src/src/pages/dashboard/ManagerDashboard.tsx):     *)
(* pending candidates.                                                     *)
(* A row of the candidates table is [id, status, assigned_manager], the    *)
(* manager being None or Some(user id); the table is held newest update    *)
(* first, which is the order the query asks for.                           *)

\* values of the role prop
Roles == {"manager", "Manager", "hr", "HR", "admin"}

UserIds == {"u1", "u2"}

\* role?.toLowerCase()
ToLowerCase(r) ==
    CASE r = "Manager" -> "manager"
      [] r = "HR" -> "hr"
      [] OTHER -> r

\* const managerId = role === 'manager' ? user?.id : null
ManagerIdOf(r, u) == IF r = "manager" THEN u ELSE None

\* relevantStatuses
RelevantStatuses(lowerCaseRole) ==
    IF lowerCaseRole = "hr" THEN {"applied", "hr_review"}
    ELSE IF lowerCaseRole = "manager" THEN {"hr_approved", "training", "final_interview"}
    ELSE {"applied", "hr_review", "hr_approved", "training", "final_interview"}

\* .from('candidates').select(...).in('status', relevantStatuses), with
\* .eq('assigned_manager', managerId) for a manager with an id,
\* .order('updated_at', { ascending: false })
PendingQuery(table, r, managerId) ==
    LET lowerCaseRole == ToLowerCase(r)
        listed == SelectSeq(table, LAMBDA c :
            /\ c.status \in RelevantStatuses(lowerCaseRole)
            /\ (lowerCaseRole = "manager" /\ managerId.defined)
                  => c.assigned_manager = managerId)
    IN  [k \in 1..Len(listed) |-> [id |-> listed[k].id, status |-> listed[k].status]]

\* what the try block comes to: the rows, or the store's error thrown
PendingTry(reply, table, r, managerId) ==
    IF reply = "error"
    THEN [threw |-> TRUE]
    ELSE [threw |-> FALSE, value |-> PendingQuery(table, r, managerId)]

\* Caught without the catch block: the error leaves the queryFn
Caught_Rethrown(outcome) == outcome

\* catch (err) { ...; return []; }
Caught(outcome) ==
    IF outcome.threw THEN [threw |-> FALSE, value |-> <<>>] ELSE outcome

PendingStatuses ==
    {"applied", "hr_review", "hr_approved", "training", "final_interview", "Rejected"}

\* tables the store may hold when the pending candidates query reads it
PendingTables ==
    {[k \in 1..Len(rows) |->
         [id |-> k, status |-> rows[k].status, assigned_manager |-> rows[k].assigned_manager]]
     : rows \in SeqsUpTo([status : PendingStatuses,
                          assigned_manager : {Some(u) : u \in UserIds}], MaxPending)}

\* the queryFn starts: a manager without a user id gets the empty list at
\* once, anyone else has the query sent to the store
PendingStart ==
    /\ pendPc = "start"
    /\ IF role = "manager" /\ ~ManagerIdOf(role, user).defined
       THEN /\ pendPc' = "done"
            /\ pendStatus' = "success"
            /\ pendingCandidates' = Some(<<>>)
            /\ pendIssued' = pendIssued
       ELSE /\ pendPc' = "awaiting"
            /\ pendIssued' = TRUE
            /\ UNCHANGED <<pendStatus, pendingCandidates, ivVars, navVars>>
    /\ UNCHANGED <<role, user, pendTable, pendToast,
                   funnelVars, kpiVars, calcVars, scanVars, trendsVars, topVars, assessVars, aggVars, ivVars, navVars>>

\* the store answers, with rows or with an error, and the queryFn runs to
\* its end
PendingReply ==
    /\ pendPc = "awaiting"
    /\ \E table \in PendingTables : \E reply \in {"rows", "error"} :
          LET outcome == Caught(PendingTry(reply, table, role, ManagerIdOf(role, user)))
          IN  /\ pendTable' = Some(table)
              /\ pendToast' = (reply = "error")
              /\ IF outcome.threw
                 THEN pendStatus' = "error" /\ pendingCandidates' = pendingCandidates
                 ELSE pendStatus' = "success" /\ pendingCandidates' = Some(outcome.value)
    /\ pendPc' = "done"
    /\ UNCHANGED <<role, user, pendIssued,
                   funnelVars, kpiVars, calcVars, scanVars, trendsVars, topVars, assessVars, aggVars, ivVars, navVars>>

isLoadingCandidates == pendStatus = "loading"

InitPending ==
    /\ role = "manager"
    /\ user = Some("u1")
    /\ pendPc = "start"
    /\ pendIssued = FALSE
    /\ pendTable = None
    /\ pendToast = FALSE
    /\ pendStatus = "loading"
    /\ pendingCandidates = None

InitPendingAny ==
    /\ role \in Roles
    /\ user \in {None} \cup {Some(u) : u \in UserIds}
    /\ pendPc = "start"
    /\ pendIssued = FALSE
    /\ pendTable = None
    /\ pendToast = FALSE
    /\ pendStatus = "loading"
    /\ pendingCandidates = None

NextPending == PendingStart \/ PendingReply

----------------------------------------------------------------------------
(* The role dashboard: upcoming interviews and the profiles of their       *)
(* candidates.                                                             *)
(* A row of the interviews table is [id, scheduled_at, status,             *)
(* candidate_id], scheduled_at being a date; the table is held in          *)
(* ascending order of scheduled_at, the order the query asks for.  The     *)
(* profiles table is a function from candidate ids to [name, email], both  *)
(* of them text that may be empty.                                         *)

\* .limit(5)
InterviewLimit == 5

\* .from('interviews').select(...).in('status', ['scheduled', 'confirmed'])
\* .gte('scheduled_at', new Date().toISOString())
\* .order('scheduled_at', { ascending: true }).limit(5)
InterviewsQuery(table, currentDate) ==
    Slice(SelectSeq(table, LAMBDA i :
              /\ i.status \in {"scheduled", "confirmed"}
              /\ IsoLeq(IsoDate(currentDate), i.scheduled_at)),
          InterviewLimit)

\* what the upcoming interviews queryFn returns: the rows, or the empty list
\* when the store's error was thrown and caught
InterviewsResult(reply, table, currentDate) ==
    IF reply = "error" THEN <<>> ELSE InterviewsQuery(table, currentDate)

\* enabled: !!upcomingInterviewsRaw && upcomingInterviewsRaw.length > 0
ProfilesEnabled(raw) == raw.defined /\ Len(raw.value) > 0

\* .from('profiles').select('id, name, email').in('id', candidateIds),
\* reduced to a map by id; the empty map when the store's error was thrown
\* and caught
ProfilesResult(reply, profiles, raw) ==
    IF reply = "error"
    THEN <<>>
    ELSE LET candidateIds == {raw[k].candidate_id : k \in 1..Len(raw)}
         IN  [id \in DOMAIN profiles \cap candidateIds |-> profiles[id]]

\* value || "Unknown" for the field of a profile that may be missing
OrUnknown(profiles, id, field) ==
    IF id \notin DOMAIN profiles THEN "Unknown"
    ELSE IF profiles[id][field] = "" THEN "Unknown"
    ELSE profiles[id][field]

\* UpcomingInterviewsOf not waiting for the profiles
UpcomingInterviewsOf_NoWait(raw, profiles) ==
    IF ~raw.defined THEN <<>>
    ELSE [k \in 1..Len(raw.value) |->
            [id |-> raw.value[k].id,
             candidateId |-> raw.value[k].candidate_id,
             candidateName |-> "Unknown",
             candidateEmail |-> "Unknown",
             managerId |-> "",
             scheduledAt |-> raw.value[k].scheduled_at,
             status |-> raw.value[k].status]]

\* the upcomingInterviews memo
UpcomingInterviewsOf(raw, profiles) ==
    IF ~raw.defined \/ ~profiles.defined THEN <<>>
    ELSE [k \in 1..Len(raw.value) |->
            [id |-> raw.value[k].id,
             candidateId |-> raw.value[k].candidate_id,
             candidateName |-> OrUnknown(profiles.value, raw.value[k].candidate_id, "name"),
             candidateEmail |-> OrUnknown(profiles.value, raw.value[k].candidate_id, "email"),
             managerId |-> "",
             scheduledAt |-> raw.value[k].scheduled_at,
             status |-> raw.value[k].status]]

upcomingInterviews == UpcomingInterviewsOf(upcomingInterviewsRaw, candidateProfiles)

\* the scheduled time of the first upcoming interview, if there is one
nextInterviewDate ==
    IF Len(upcomingInterviews) > 0 THEN Some(upcomingInterviews[1].scheduledAt) ELSE None

\* the days interviews are scheduled on: the day before the current date,
\* that date and the day after
InterviewDates == {<<2026, 10, 31>>, <<2026, 11, 1>>, <<2026, 11, 2>>}

CandidateIds == {"c1", "c2"}

\* the sequence is in ascending order of scheduled_at
IsAscending(rows) ==
    \A k \in 1..(Len(rows) - 1) : IsoLeq(rows[k].scheduled_at, rows[k + 1].scheduled_at)

\* the table with the given rows, their ids following the table's order
WithIds(rows) ==
    [k \in 1..Len(rows) |->
        [id |-> k, scheduled_at |-> rows[k].scheduled_at, status |-> rows[k].status,
         candidate_id |-> rows[k].candidate_id]]

\* six interviews to come, more than the query returns
SixInterviews ==
    [k \in 1..6 |->
        [scheduled_at |-> IF k <= 3 THEN <<2026, 11, 1>> ELSE <<2026, 11, 2>>,
         status |-> IF k % 2 = 0 THEN "scheduled" ELSE "confirmed",
         candidate_id |-> IF k % 3 = 0 THEN "c2" ELSE "c1"]]

\* tables the store may hold when the upcoming interviews query reads it
InterviewTables ==
    {WithIds(rows) : rows \in
        {r \in SeqsUpTo([scheduled_at : InterviewDates,
                         status : {"scheduled", "confirmed", "cancelled"},
                         candidate_id : CandidateIds], MaxInterviews) : IsAscending(r)}
        \cup {SixInterviews}}

\* the profiles the store may hold: none, one with a name, one whose name
\* is the empty text
ProfileTables ==
    { <<>>,
      [id \in {"c1"} |-> [name |-> "Ann", email |-> "ann@example.com"]],
      [id \in {"c1"} |-> [name |-> "", email |-> "ann@example.com"]],
      [id \in {"c2"} |-> [name |-> "Bob", email |-> "bob@example.com"]],
      [id \in CandidateIds |->
          IF id = "c1" THEN [name |-> "Ann", email |-> "ann@example.com"]
          ELSE [name |-> "Bob", email |-> "bob@example.com"]] }

\* the upcoming interviews queryFn ran: the store answered with rows or with
\* an error
InterviewsReply ==
    /\ ivStatus = "loading"
    /\ \E table \in InterviewTables : \E reply \in {"rows", "error"} :
          /\ ivTable' = Some(table)
          /\ ivToast' = (reply = "error")
          /\ upcomingInterviewsRaw' = Some(InterviewsResult(reply, table, now))
    /\ ivStatus' = "success"
    /\ UNCHANGED <<profPc, profIssued, profToast, candidateProfiles,
                   funnelVars, kpiVars, calcVars, scanVars, trendsVars, topVars, assessVars, aggVars, pendVars, navVars>>

\* the candidateProfiles query is enabled and its queryFn starts: it sends
\* its query to the store
ProfilesStart ==
    /\ profPc = "idle"
    /\ ProfilesEnabled(upcomingInterviewsRaw)
    /\ profPc' = "awaiting"
    /\ profIssued' = TRUE
    /\ UNCHANGED <<ivTable, ivToast, ivStatus, upcomingInterviewsRaw, profToast, candidateProfiles,
                   funnelVars, kpiVars, calcVars, scanVars, trendsVars, topVars, assessVars, aggVars, pendVars, navVars>>

\* the store answers the profiles query, with rows or with an error
ProfilesReply ==
    /\ profPc = "awaiting"
    /\ \E profiles \in ProfileTables : \E reply \in {"rows", "error"} :
          /\ profToast' = (reply = "error")
          /\ candidateProfiles' =
                Some(ProfilesResult(reply, profiles, upcomingInterviewsRaw.value))
    /\ profPc' = "done"
    /\ UNCHANGED <<ivTable, ivToast, ivStatus, upcomingInterviewsRaw, profIssued,
                   funnelVars, kpiVars, calcVars, scanVars, trendsVars, topVars, assessVars, aggVars, pendVars, navVars>>

InitInterviews ==
    /\ ivTable = None
    /\ ivToast = FALSE
    /\ ivStatus = "loading"
    /\ upcomingInterviewsRaw = None
    /\ profPc = "idle"
    /\ profIssued = FALSE
    /\ profToast = FALSE
    /\ candidateProfiles = None

NextInterviews == InterviewsReply \/ ProfilesStart \/ ProfilesReply

\* ReviewStatuses counting a manager's candidates in training as reviews
ReviewStatuses_WithTraining(lowerCaseRole) ==
    IF lowerCaseRole = "hr" THEN {"applied", "hr_review"}
    ELSE IF lowerCaseRole = "manager" THEN {"hr_approved", "training", "final_interview"}
    ELSE {"applied", "hr_review", "final_interview"}

\* the statuses that count as a review pending for the role
ReviewStatuses(lowerCaseRole) ==
    IF lowerCaseRole = "hr" THEN {"applied", "hr_review"}
    ELSE IF lowerCaseRole = "manager" THEN {"hr_approved", "final_interview"}
    ELSE {"applied", "hr_review", "final_interview"}

\* the dashboardStats memo
DashboardStatsOf(r, pending, upcoming) ==
    LET rows == IF pending.defined THEN pending.value ELSE <<>>
    IN  [totalCandidates |-> Len(rows),
         pendingReviews |->
             Len(SelectSeq(rows, LAMBDA c : c.status \in ReviewStatuses(ToLowerCase(r)))),
         interviewsScheduled |-> Len(upcoming)]

dashboardStats == DashboardStatsOf(role, pendingCandidates, upcomingInterviews)

----------------------------------------------------------------------------
(* The navbar.                                                             *)
(* localStorage's 'userRole' item is written by the rest of the            *)
(* application; the navbar reads it when it mounts and removes it on       *)
(* logout.  Logging out assigns window.location.href, so the page is left  *)
(* and the login page constructs a navbar of its own.                      *)

\* window.scrollY > 10
ScrollThreshold == 10

ScrollPositions == {0, 1, ScrollThreshold - 1, ScrollThreshold, ScrollThreshold + 1}

StoredRoles == {None, Some(""), Some("candidate"), Some("hr"), Some("manager"), Some("admin")}

\* if (storedRole): the item exists and is not the empty text
Truthy(item) == item.defined /\ item.value # ""

\* the values handleLogout sets, the role kept
LoggedOut_KeepsRole(current) == [isAuthenticated |-> FALSE, userRole |-> current]

\* the values handleLogout sets
LoggedOut(current) == [isAuthenticated |-> FALSE, userRole |-> None]

NavUnchangedOthers ==
    UNCHANGED <<funnelVars, kpiVars, calcVars, scanVars, trendsVars, topVars, assessVars, aggVars, pendVars, ivVars>>

\* the mount effect: read the stored role, register the scroll listener
Mount ==
    /\ navPc = "constructed"
    /\ navPc' = "mounted"
    /\ IF Truthy(storedRole)
       THEN isAuthenticated' = TRUE /\ userRole' = storedRole
       ELSE UNCHANGED <<isAuthenticated, userRole>>
    /\ UNCHANGED <<storedRole, scrollY, isOpen, isScrolled>>
    /\ NavUnchangedOthers

\* handleScroll, on a scroll of the window to position y
Scroll ==
    /\ navPc \in {"mounted", "leaving"}
    /\ \E y \in ScrollPositions :
          /\ scrollY' = y
          /\ isScrolled' = (y > ScrollThreshold)
    /\ UNCHANGED <<navPc, storedRole, isOpen, isAuthenticated, userRole>>
    /\ NavUnchangedOthers

\* the mobile navigation button
ToggleMenu ==
    /\ navPc \in {"mounted", "leaving"}
    /\ isOpen' = ~isOpen
    /\ UNCHANGED <<navPc, storedRole, scrollY, isScrolled, isAuthenticated, userRole>>
    /\ NavUnchangedOthers

\* closeMenu, on a click on a link of the mobile menu
LinkClick ==
    /\ navPc \in {"mounted", "leaving"}
    /\ isOpen' = FALSE
    /\ UNCHANGED <<navPc, storedRole, scrollY, isScrolled, isAuthenticated, userRole>>
    /\ NavUnchangedOthers

\* handleLogout, from the Logout button of the desktop menu
Logout ==
    /\ navPc \in {"mounted", "leaving"}
    /\ isAuthenticated
    /\ storedRole' = None
    /\ isAuthenticated' = LoggedOut(userRole).isAuthenticated
    /\ userRole' = LoggedOut(userRole).userRole
    /\ navPc' = "leaving"
    /\ UNCHANGED <<scrollY, isOpen, isScrolled>>
    /\ NavUnchangedOthers

\* handleLogout(); closeMenu(), from the Logout button of the mobile menu
MobileLogout ==
    /\ navPc \in {"mounted", "leaving"}
    /\ isAuthenticated
    /\ storedRole' = None
    /\ isAuthenticated' = LoggedOut(userRole).isAuthenticated
    /\ userRole' = LoggedOut(userRole).userRole
    /\ isOpen' = FALSE
    /\ navPc' = "leaving"
    /\ UNCHANGED <<scrollY, isScrolled>>
    /\ NavUnchangedOthers

\* the login page is loaded: a navbar is constructed anew
PageLoad ==
    /\ navPc = "leaving"
    /\ navPc' = "constructed"
    /\ scrollY' = 0
    /\ isOpen' = FALSE
    /\ isScrolled' = FALSE
    /\ isAuthenticated' = FALSE
    /\ userRole' = None
    /\ UNCHANGED storedRole
    /\ NavUnchangedOthers

\* the navbar as constructed, on a page not scrolled, with a stored role
InitNavbar ==
    /\ navPc = "constructed"
    /\ storedRole = Some("manager")
    /\ scrollY = 0
    /\ isOpen = FALSE
    /\ isScrolled = FALSE
    /\ isAuthenticated = FALSE
    /\ userRole = None

\* the navbar as constructed, on any page and with any stored role
InitNavbarAny ==
    /\ navPc = "constructed"
    /\ storedRole \in StoredRoles
    /\ scrollY \in ScrollPositions
    /\ isOpen = FALSE
    /\ isScrolled = FALSE
    /\ isAuthenticated = FALSE
    /\ userRole = None

NextNavbar == Mount \/ Scroll \/ ToggleMenu \/ LinkClick \/ Logout \/ MobileLogout \/ PageLoad

----------------------------------------------------------------------------
(* Specifications.  The queries of the page share no state, so each is     *)
(* checked on its own; Spec is the page as a whole.                        *)

Init == InitFunnel /\ InitKpi /\ InitCalc /\ InitScan /\ InitTrends /\ InitTop /\ InitAssess /\ InitAgg /\ InitPending /\ InitInterviews /\ InitNavbar

Next == NextFunnel \/ NextKpi \/ NextCalc \/ NextScan \/ NextTrends \/ NextTop \/ NextAssess \/ NextAgg \/ NextPending \/ NextInterviews \/ NextNavbar

Spec == Init /\ [][Next]_vars

SpecFunnel == Init /\ [][NextFunnel]_vars

SpecKpi == Init /\ [][NextKpi]_vars

InitCalcChange == InitFunnel /\ InitKpi /\ InitCalcAny /\ InitScan /\ InitTrends /\ InitTop /\ InitAssess /\ InitAgg /\ InitPending /\ InitInterviews /\ InitNavbar

SpecCalcChange == InitCalcChange /\ [][NextCalc]_vars

InitBottleneck == InitFunnel /\ InitKpi /\ InitCalc /\ InitScanAny /\ InitTrends /\ InitTop /\ InitAssess /\ InitAgg /\ InitPending /\ InitInterviews /\ InitNavbar

SpecBottleneck == InitBottleneck /\ [][NextScan]_vars

InitTrendsSpec == InitFunnel /\ InitKpi /\ InitCalc /\ InitScan /\ InitTrendsAny /\ InitTop /\ InitAssess /\ InitAgg /\ InitPending /\ InitInterviews /\ InitNavbar

SpecTrends == InitTrendsSpec /\ [][NextTrends]_vars

SpecTopPerformers == Init /\ [][NextTop]_vars

SpecAssessments == Init /\ [][NextAssess]_vars

InitAggregations ==
    InitFunnel /\ InitKpi /\ InitCalc /\ InitScan /\ InitTrendsAny /\ InitTop /\ InitAssess /\ InitAggAny /\ InitPending /\ InitInterviews /\ InitNavbar

SpecAggregations == InitAggregations /\ [][NextAgg]_vars

InitPendingSpec ==
    /\ InitFunnel /\ InitKpi /\ InitCalc /\ InitScan /\ InitTrends /\ InitTop /\ InitAssess /\ InitAgg
    /\ InitPendingAny /\ InitInterviews /\ InitNavbar

SpecPending == InitPendingSpec /\ [][NextPending]_vars

SpecInterviews == Init /\ [][NextInterviews]_vars

InitNavbarSpec ==
    /\ InitFunnel /\ InitKpi /\ InitCalc /\ InitScan /\ InitTrends /\ InitTop /\ InitAssess /\ InitAgg
    /\ InitPending /\ InitInterviews /\ InitNavbarAny

SpecNavbar == InitNavbarSpec /\ [][NextNavbar]_vars

----------------------------------------------------------------------------
(* Properties of the funnel (SpecFunnel).                                  *)

Abs(x) == IF x < 0 THEN -x ELSE x

\* t tenths of a percent is n / d * 100 rounded to one decimal
IsPctAtOneDecimal(t, n, d) == 2 * Abs(t * d - 1000 * n) <= d

\* r percent is n / d * 100 rounded to the nearest integer
IsPctRounded(r, n, d) == 2 * Abs(r * d - 100 * n) <= d

\* the number of fetched candidates whose status is in the set
NumWithStatus(statuses) ==
    Cardinality({j \in 1..Len(funnelCandidatesData.value) :
                    funnelCandidatesData.value[j].status \in statuses})

NumStages == Len(funnelStages)

\* C1: for an empty candidate collection every stage has count 0 and value 0,
\* the first stage has stageToStageRate 100 and every later stage has 0.
C1_EmptyFunnelRates ==
    (funnelCandidatesData.defined /\ Len(funnelCandidatesData.value) = 0) =>
        \A i \in 1..NumStages :
            /\ calculatedFunnelData[i].count = 0
            /\ calculatedFunnelData[i].value = 0
            /\ calculatedFunnelData[i].stageToStageRate = (IF i = 1 THEN 1000 ELSE 0)

\* C2: for every candidate collection the stage-to-stage rate is 100 for the
\* first stage and, for a later stage i, count[i] / count[i-1] * 100 at one
\* decimal, 0 when count[i-1] = 0.
C2_StageToStageRate ==
    funnelCandidatesData.defined =>
        /\ calculatedFunnelData[1].stageToStageRate = 1000
        /\ \A i \in 2..NumStages :
             LET prev == NumWithStatus(funnelStages[i - 1].statuses)
                 cnt  == NumWithStatus(funnelStages[i].statuses)
                 rate == calculatedFunnelData[i].stageToStageRate
             IN  IF prev = 0 THEN rate = 0 ELSE IsPctAtOneDecimal(rate, cnt, prev)

\* C3: for every candidate collection and stage, count is the number of
\* candidates whose status is in the stage's set, and value is
\* count / (first stage's count) * 100 at one decimal, 0 when that count is 0.
C3_CountAndValue ==
    funnelCandidatesData.defined =>
        \A i \in 1..NumStages :
            LET entry == NumWithStatus(funnelStages[1].statuses)
                cnt   == NumWithStatus(funnelStages[i].statuses)
            IN  /\ calculatedFunnelData[i].count = cnt
                /\ IF entry = 0
                   THEN calculatedFunnelData[i].value = 0
                   ELSE IsPctAtOneDecimal(calculatedFunnelData[i].value, cnt, entry)

\* a collection whose first stage holds 3 candidates, one of them hired
C3_Witness ==
    /\ funnelCandidatesData.defined
    /\ calculatedFunnelData[1].count = 3
    /\ calculatedFunnelData[5].count = 1
    /\ calculatedFunnelData[5].value = 333

\* C4: the stage definitions narrow monotonically, so for every collection
\* and every stage after the first: count[i] <= count[i-1], the
\* stage-to-stage rate is at most 100, and it is exactly 100 when
\* count[i] = count[i-1] > 0.
C4_FunnelMonotone ==
    /\ \A i \in 2..NumStages : funnelStages[i].statuses \subseteq funnelStages[i - 1].statuses
    /\ \A i \in 2..NumStages :
         /\ calculatedFunnelData[i].count <= calculatedFunnelData[i - 1].count
         /\ calculatedFunnelData[i].stageToStageRate <= 1000
         /\ (/\ calculatedFunnelData[i].count = calculatedFunnelData[i - 1].count
             /\ calculatedFunnelData[i].count > 0)
                => calculatedFunnelData[i].stageToStageRate = 1000

\* a collection that narrows at one stage and keeps every candidate at another
C4_Witness ==
    /\ funnelCandidatesData.defined
    /\ calculatedFunnelData[2].count = 2
    /\ calculatedFunnelData[3].count = 2
    /\ calculatedFunnelData[3].stageToStageRate = 1000
    /\ calculatedFunnelData[4].count = 1
    /\ calculatedFunnelData[4].stageToStageRate = 500

----------------------------------------------------------------------------
(* Properties of the bottleneck scan (SpecBottleneck).                     *)

\* C5: the bottleneck is the stage after the first with the minimal
\* stage-to-stage rate, the lowest-index one among equal rates, reported
\* with its name, the previous stage's name and its rate; rates
\* [100, 80, 30, 90] give the stage of index 2 (the third) with rate 30.
C5_BottleneckIsFirstMinimum ==
    (scanResult.defined /\ scanResult.value.defined) =>
        LET rates == scanArgs.rates
            b == scanResult.value.value
        IN  /\ \E i \in 2..Len(rates) :
                 /\ b = [name |-> i, prevStageName |-> i - 1, rate |-> rates[i]]
                 /\ \A j \in 2..Len(rates) : rates[j] >= rates[i]
                 /\ \A j \in 2..(i - 1) : rates[j] > rates[i]
            /\ rates = <<1000, 800, 300, 900>>
                 => b = [name |-> 3, prevStageName |-> 2, rate |-> 300]

\* the scan has run on rates with the minimum at two stages
C5_Witness ==
    /\ scanResult.defined
    /\ scanArgs.rates = <<1000, 300, 800, 300>>
    /\ ~scanArgs.loading
    /\ scanResult.value = Some([name |-> 2, prevStageName |-> 1, rate |-> 300])

\* C6: no bottleneck is reported for a funnel of one stage or none, nor
\* while the funnel rows are loading; in every other case one is reported.
C6_BottleneckReported ==
    scanResult.defined =>
        (scanResult.value = None <=> (scanArgs.loading \/ Len(scanArgs.rates) <= 1))

\* the scan has run on a loaded funnel of one stage
C6_Witness ==
    /\ scanResult.defined
    /\ ~scanArgs.loading
    /\ Len(scanArgs.rates) = 1
    /\ scanResult.value = None

----------------------------------------------------------------------------
(* Properties of the KPI changes (SpecCalcChange, SpecKpi).                *)

\* C7: calcChange(current, 0) is 100 when current > 0 and 0 when current = 0.
C7_ZeroPreviousRule ==
    (calcResult.defined /\ calcArgs.previous = 0) =>
        calcResult.value = (IF calcArgs.current > 0 THEN 100 ELSE 0)

\* calcChange has run on a positive count after a previous count of 0
C7_Witness ==
    /\ calcResult.defined
    /\ calcArgs.previous = 0
    /\ calcArgs.current = 7
    /\ calcResult.value = 100

\* C8 as stated: for previous # 0, calcChange is
\* (current - previous) / previous * 100 rounded to the nearest integer
\* (previous = 40, current = 50 gives 25), negative when current < previous.
C8_RoundedChangeNegative ==
    (calcResult.defined /\ calcArgs.previous # 0) =>
        /\ IsPctRounded(calcResult.value, calcArgs.current - calcArgs.previous,
                        calcArgs.previous)
        /\ (calcArgs.previous = 40 /\ calcArgs.current = 50) => calcResult.value = 25
        /\ calcArgs.current < calcArgs.previous => calcResult.value < 0

\* C8 amended: for previous # 0, calcChange is
\* (current - previous) / previous * 100 rounded to the nearest integer
\* (previous = 40, current = 50 gives 25); when current < previous the result
\* is never positive, and it is negative when the decrease is more than half
\* a percent of previous.
C8_RoundedChange ==
    (calcResult.defined /\ calcArgs.previous # 0) =>
        /\ IsPctRounded(calcResult.value, calcArgs.current - calcArgs.previous,
                        calcArgs.previous)
        /\ (calcArgs.previous = 40 /\ calcArgs.current = 50) => calcResult.value = 25
        /\ calcArgs.current < calcArgs.previous => calcResult.value <= 0
        /\ 200 * (calcArgs.previous - calcArgs.current) > calcArgs.previous
              => calcResult.value < 0

\* calcChange has run on a decrease too small to show
C8_Witness ==
    /\ calcResult.defined
    /\ calcArgs.previous = 200
    /\ calcArgs.current = 199
    /\ calcResult.value = 0

\* the change is what the delta rule gives for current and previous
IsDelta(change, current, previous) ==
    IF previous = 0
    THEN change = (IF current > 0 THEN 100 ELSE 0)
    ELSE IsPctRounded(change, current - previous, previous)

\* C9: conversionRateChange is the delta function applied to the two
\* conversion rates, each hires / applications * 100 at one decimal and 0
\* without applications; the other three changes are the delta function
\* applied to their current and previous counts.
C9_UniformDelta ==
    kpiData.defined =>
        LET kpi == kpiData.value
            m == calculatedMetrics
            prevRate == ConversionRate(kpi.hiredPrevMonth, kpi.applicationsPrevMonth)
        IN  /\ IF kpi.applicationsThisMonth = 0
               THEN m.conversionRate = 0
               ELSE IsPctAtOneDecimal(m.conversionRate, kpi.hiredThisMonth,
                                      kpi.applicationsThisMonth)
            /\ IF kpi.applicationsPrevMonth = 0
               THEN prevRate = 0
               ELSE IsPctAtOneDecimal(prevRate, kpi.hiredPrevMonth,
                                      kpi.applicationsPrevMonth)
            /\ m.conversionRateChange = calcChange(m.conversionRate, prevRate)
            /\ IsDelta(m.conversionRateChange, m.conversionRate, prevRate)
            /\ IsDelta(m.totalCandidatesChange,
                       kpi.totalActiveCandidates, kpi.totalActiveCandidatesPrev)
            /\ IsDelta(m.applicationsThisMonthChange,
                       kpi.applicationsThisMonth, kpi.applicationsPrevMonth)
            /\ IsDelta(m.hiredThisMonthChange, kpi.hiredThisMonth, kpi.hiredPrevMonth)

\* the KPI counts are loaded: no hire last month, one hire in three
\* applications this month
C9_Witness ==
    /\ kpiData.defined
    /\ kpiData.value.applicationsPrevMonth = 2
    /\ kpiData.value.hiredPrevMonth = 0
    /\ kpiData.value.applicationsThisMonth = 3
    /\ kpiData.value.hiredThisMonth = 1
    /\ calculatedMetrics.conversionRate = 333
    /\ calculatedMetrics.conversionRateChange = 100

----------------------------------------------------------------------------
(* Properties of the hiring trends (SpecTrends).                           *)

\* s without its i-th element
Remove(s, i) == [j \in 1..(Len(s) - 1) |-> IF j < i THEN s[j] ELSE s[j + 1]]

\* the total of a sequence of 12 counts
Sum12(c) == c[1] + c[2] + c[3] + c[4] + c[5] + c[6] + c[7] + c[8] + c[9] + c[10] + c[11] + c[12]

\* row i of the table read by the trends query is counted in bucket k:
\* without the row that bucket's candidate count is one less
CountedIn(i, k) ==
    trendsData.value.candidates[k]
        = TrendsOf(now, Remove(trendsTable.value, i)).candidates[k] + 1

\* row i of the table is counted in no bucket
CountedNowhere(i) ==
    trendsData.value.candidates
        = TrendsOf(now, Remove(trendsTable.value, i)).candidates

\* row i of the table is dated `date`
DatedAt(i, date) ==
    /\ trendsTable.value[i].updated_at.defined
    /\ trendsTable.value[i].updated_at.value = IsoDate(date)

\* the series ends at the current calendar month, oldest bucket first:
\* its labels are those of the 12 consecutive months up to the current one,
\* and a row dated today is counted in the last bucket
EndsAtCurrentMonth ==
    /\ \A k \in 1..12 :
         trendsData.value.months[k] =
            <<"Jan", "Feb", "Mar", "Apr", "May", "Jun",
              "Jul", "Aug", "Sep", "Oct", "Nov", "Dec">>[((now.m + k - 1) % 12) + 1]
    /\ \A i \in 1..Len(trendsTable.value) : DatedAt(i, now) => CountedIn(i, 12)

\* C10 as stated: a row dated exactly 12 months before the start of the
\* current month is counted in a bucket, a row one month further back is
\* counted in none, and the series ends at the current month, oldest first.
C10_WindowTwelveBack ==
    trendsData.defined =>
        /\ \A i \in 1..Len(trendsTable.value) :
             /\ DatedAt(i, subMonths(startOfMonth(now), 12))
                   => \E k \in 1..12 : CountedIn(i, k)
             /\ DatedAt(i, subMonths(startOfMonth(now), 13)) => CountedNowhere(i)
        /\ EndsAtCurrentMonth

\* C10 amended: a row dated exactly 11 months before the current date is
\* counted in the first bucket and an earlier row of that month in none; a
\* row dated exactly 12 months before the start of the current month, or one
\* month further back, is counted in no bucket; the series ends at the
\* current month, oldest first.
C10_WindowElevenBack ==
    trendsData.defined =>
        /\ \A i \in 1..Len(trendsTable.value) :
             /\ DatedAt(i, subMonths(now, 11)) => CountedIn(i, 1)
             /\ (/\ trendsTable.value[i].updated_at.defined
                 /\ MonthKey(trendsTable.value[i].updated_at.value)
                       = MonthKey(IsoDate(subMonths(now, 11)))
                 /\ ~IsoLeq(IsoDate(subMonths(now, 11)),
                            trendsTable.value[i].updated_at.value))
                   => CountedNowhere(i)
             /\ DatedAt(i, subMonths(startOfMonth(now), 12)) => CountedNowhere(i)
             /\ DatedAt(i, subMonths(startOfMonth(now), 13)) => CountedNowhere(i)
        /\ EndsAtCurrentMonth

\* the trends are loaded from a table with one row dated 11 months before
\* the current date and one dated 12 months before the start of the month;
\* only the first is counted
C10_Witness ==
    /\ trendsData.defined
    /\ Len(trendsTable.value) = 2
    /\ DatedAt(1, subMonths(now, 11))
    /\ DatedAt(2, subMonths(startOfMonth(now), 12))
    /\ now.d = 15
    /\ trendsData.value.candidates[1] = 1
    /\ Sum12(trendsData.value.candidates) = 1

----------------------------------------------------------------------------
(* Further properties of the hiring trends (SpecTrends).                   *)

\* the rows the trends query answered with
FetchedTrendRows == TrendsQuery(trendsTable.value, TwelveMonthsAgo(now))

\* the three-letter name of month m
ShortName(m) ==
    <<"Jan", "Feb", "Mar", "Apr", "May", "Jun",
      "Jul", "Aug", "Sep", "Oct", "Nov", "Dec">>[m]

\* C11: loading, failed or loaded, and whatever the rows, the trend view
\* model is three sequences of length 12 aligned by index (label k names the
\* month of bucket k), with all counts 0 while data is absent and when no
\* row was processed.
C11_TwelveAlignedBuckets ==
    LET t == calculatedHiringTrends
    IN  /\ DOMAIN t.months = 1..12
        /\ DOMAIN t.candidates = 1..12
        /\ DOMAIN t.hires = 1..12
        /\ \A k \in 1..12 :
             /\ t.months[k] = ShortName(((now.m + k - 1) % 12) + 1)
             /\ k <= Len(WindowKeys(now)) => t.months[k] = ShortName(WindowKeys(now)[k][2])
        /\ (trendsStatus # "success" \/ Len(FetchedTrendRows) = 0)
              => \A k \in 1..12 : t.candidates[k] = 0 /\ t.hires[k] = 0

\* the trends are loaded on a 31st, eleven months after a 30-day month, with
\* a hire counted in the last bucket
C11_Witness ==
    /\ trendsStatus = "success"
    /\ now = [y |-> 2026, m |-> 3, d |-> 31]
    /\ calculatedHiringTrends.candidates[12] = 1
    /\ calculatedHiringTrends.hires[12] = 1
    /\ calculatedHiringTrends.months[12] = "Mar"

\* the year and month of bucket k: the current month is bucket 12
WindowMonth(k) ==
    LET total == now.y * 12 + (now.m - 1) - (12 - k)
    IN  <<total \div 12, (total % 12) + 1>>

\* the fetched rows stamped in the month of bucket k
FetchedInMonth(k) ==
    {i \in 1..Len(FetchedTrendRows) :
        MonthKey(FetchedTrendRows[i].updated_at.value) = WindowMonth(k)}

\* C12: each fetched row adds one to the candidate-touch count of the bucket
\* of its own year and month when that month is one of the 12 of the window
\* and to none otherwise: every bucket counts the rows of its month, and the
\* counts add up to the number of rows whose month lies in the window.
C12_TouchCounts ==
    trendsStatus = "success" =>
        LET c == trendsData.value.candidates
        IN  /\ \A k \in 1..12 : c[k] = Cardinality(FetchedInMonth(k))
            /\ Sum12(c) = Cardinality(UNION {FetchedInMonth(k) : k \in 1..12})

\* two rows were fetched, one stamped in a month of the window and one in
\* the month after the current one
C12_Witness ==
    /\ trendsStatus = "success"
    /\ Len(FetchedTrendRows) = 2
    /\ Sum12(trendsData.value.candidates) = 1
    /\ \E i \in 1..2 :
          \A k \in 1..12 : MonthKey(FetchedTrendRows[i].updated_at.value) # WindowMonth(k)

\* the rows of the table that count as a hire of bucket k
HiresInMonth(k) ==
    LET table == trendsTable.value
    IN  {i \in 1..Len(table) :
            /\ table[i].status = "Hired"
            /\ table[i].updated_at.defined
            /\ MonthKey(table[i].updated_at.value) = WindowMonth(k)
            /\ IsoLeq(TwelveMonthsAgo(now), table[i].updated_at.value)}

\* C13: a row adds one to a hire count iff its status is 'Hired', its month
\* is one of the 12 of the window and its timestamp is not earlier than the
\* window's start, and the bucket it adds to is that of its own month.
C13_HireCounts ==
    trendsStatus = "success" =>
        \A k \in 1..12 : trendsData.value.hires[k] = Cardinality(HiresInMonth(k))

\* of two 'Hired' rows of the oldest month of the window, the one stamped on
\* the window's first day is counted and the one before it is not
C13_Witness ==
    /\ trendsStatus = "success"
    /\ now = [y |-> 2026, m |-> 11, d |-> 15]
    /\ trendsTable.value =
          << [status |-> "Hired", updated_at |-> Some(<<2025, 12, 14>>)],
             [status |-> "Hired", updated_at |-> Some(<<2025, 12, 15>>)] >>
    /\ trendsData.value.hires[1] = 1

----------------------------------------------------------------------------
(* Status counts (SpecFunnel).                                             *)

\* the rows the status counter reads
StatusRows == IF funnelCandidatesData.defined THEN funnelCandidatesData.value ELSE <<>>

\* the number of those rows whose status is in the set
NumRowsWithStatus(statuses) ==
    Cardinality({j \in 1..Len(StatusRows) : StatusRows[j].status \in statuses})

\* C14: hired counts the rows with status 'Hired', rejected those with
\* 'Rejected' and inProgress those with any other status, so that the three
\* add up to the number of input rows.
C14_StatusCounts ==
    LET counts == calculatedStatusCounts
    IN  /\ counts.hired = NumRowsWithStatus({"Hired"})
        /\ counts.rejected = NumRowsWithStatus({"Rejected"})
        /\ counts.inProgress = NumRowsWithStatus(Statuses \ {"Hired", "Rejected"})
        /\ counts.hired + counts.rejected + counts.inProgress = Len(StatusRows)

\* one row of each class was counted
C14_Witness ==
    /\ funnelStatus = "success"
    /\ Len(funnelCandidatesData.value) = 3
    /\ calculatedStatusCounts = [hired |-> 1, rejected |-> 1, inProgress |-> 1]

----------------------------------------------------------------------------
(* Top performers (SpecTopPerformers).                                     *)

\* the scores of row i of the table that are not null
NonNullScores(i) ==
    SelectSeq(topTable.value[i].assessment_results, LAMBDA r : r.score.defined)

\* row i of the table is not closed and has at least one non-null score
Eligible(i) ==
    /\ topTable.value[i].status # "Closed"
    /\ Len(NonNullScores(i)) > 0

\* the candidate of row i is in the output
Listed(i) ==
    \E k \in 1..Len(topPerformersData.value) : topPerformersData.value[k].id = i

\* C15: a candidate with no non-null score (no results at all, or every
\* score null) is never in the output, whatever the other candidates score.
C15_UnscoredExcluded ==
    topStatus = "success" =>
        \A i \in 1..Len(topTable.value) :
            Len(NonNullScores(i)) = 0 => ~Listed(i)

\* a candidate without results and one with null scores only stand next to
\* scored candidates that are listed
C15_Witness ==
    /\ topStatus = "success"
    /\ Len(topPerformersData.value) >= 2
    /\ \E i \in 1..Len(topTable.value) :
          topTable.value[i].status # "Closed" /\ Len(topTable.value[i].assessment_results) = 0
    /\ \E i \in 1..Len(topTable.value) :
          /\ topTable.value[i].status # "Closed"
          /\ Len(topTable.value[i].assessment_results) > 0
          /\ Len(NonNullScores(i)) = 0

\* r is the mean of the non-null scores of row i, rounded to the nearest
\* integer (the larger one on a tie)
IsRoundedMean(r, i) ==
    LET n == Len(NonNullScores(i))
        total == SumScores([k \in 1..n |-> NonNullScores(i)[k].score.value])
    IN  2 * r * n - n <= 2 * total /\ 2 * total < 2 * r * n + n

RoundedMeanOf(i) == CHOOSE r \in 0..100 : IsRoundedMean(r, i)

EligibleRows == {i \in 1..Len(topTable.value) : Eligible(i)}

\* C16: the output has at most 5 entries, each an eligible candidate with
\* its rounded mean, sorted by that mean descending with equal means in fetch
\* order, and when more than 5 candidates are eligible it holds the 5 that
\* score highest.
C16_TopFiveRanked ==
    topStatus = "success" =>
        LET out == topPerformersData.value
        IN  /\ Len(out) <= 5
            /\ \A k \in 1..Len(out) :
                  Eligible(out[k].id) /\ IsRoundedMean(out[k].score, out[k].id)
            /\ \A j, k \in 1..Len(out) :
                  j < k => \/ out[j].score > out[k].score
                           \/ out[j].score = out[k].score /\ out[j].id < out[k].id
            /\ Cardinality(EligibleRows) > 5 =>
                  /\ Len(out) = 5
                  /\ \A i \in EligibleRows : \A k \in 1..5 :
                        ~Listed(i) => RoundedMeanOf(i) <= out[k].score

\* C20: when fewer than five candidates have a non-null score, every one of
\* them is in the output, a candidate whose rounded mean is 0 included.
C20_EligibleListed ==
    topStatus = "success" =>
        (Cardinality(EligibleRows) < 5 => \A i \in EligibleRows : Listed(i))

----------------------------------------------------------------------------
(* Assessment performance (SpecAssessments).                               *)

\* the rows of the assessment_results table
ResultRows == IF assessTable.defined THEN assessTable.value ELSE <<>>

\* the rows with a non-null score whose assessment's title is the name
Submitted(name) ==
    {i \in 1..Len(ResultRows) :
        /\ ResultRows[i].score.defined
        /\ ResultRows[i].assessments.defined
        /\ ResultRows[i].assessments.value.title = name}

\* the sum of the scores of a set of rows
RECURSIVE ScoreSum(_)
ScoreSum(rows) ==
    IF rows = {} THEN 0
    ELSE LET i == CHOOSE j \in rows : TRUE
         IN  ResultRows[i].score.value + ScoreSum(rows \ {i})

\* C17: for each of the five fixed names, in their order, submissions is the
\* number of results with a non-null score whose title is exactly the name,
\* and avgScore is the sum of their scores divided by submissions and
\* rounded to the nearest integer (the larger on a tie), or 0 without
\* submissions; results with no title or another title count nowhere.
C17_AssessmentPerformance ==
    LET perf == calculatedAssessmentPerformance
    IN  /\ DOMAIN perf = 1..5
        /\ \A s \in 1..5 :
              LET n == Cardinality(Submitted(assessmentStages[s]))
                  total == ScoreSum(Submitted(assessmentStages[s]))
              IN  /\ perf[s].name = assessmentStages[s]
                  /\ perf[s].submissions = n
                  /\ n = 0 => perf[s].avgScore = 0
                  /\ n > 0 => /\ 2 * perf[s].avgScore * n - n <= 2 * total
                              /\ 2 * total < 2 * perf[s].avgScore * n + n

\* scores 70, 75 and 80 of 'Initial Screening' give avgScore 75 over 3
\* submissions
C17_Witness ==
    /\ assessStatus = "success"
    /\ assessTable.value =
          [k \in 1..3 |-> [score |-> Some(<<70, 75, 80>>[k]),
                           assessments |-> Some([title |-> "Initial Screening"])]]
    /\ calculatedAssessmentPerformance[1] =
          [name |-> "Initial Screening", avgScore |-> 75, submissions |-> 3]

----------------------------------------------------------------------------
(* The aggregations on their own (SpecAggregations).                       *)

ZeroMetrics ==
    [totalCandidates |-> 0, applicationsThisMonth |-> 0, hiredThisMonth |-> 0,
     conversionRate |-> 0, totalCandidatesChange |-> 0,
     applicationsThisMonthChange |-> 0, hiredThisMonthChange |-> 0,
     conversionRateChange |-> 0]

\* the change of a metric whose previous value is 0
FromZero(current) == IF current > 0 THEN 100 ELSE 0

\* the KPI fallbacks: no data gives all zeros; a previous value of 0 gives a
\* change of 100 or 0; no applications give a conversion rate of 0
KpiFallbacks(kpi, v) ==
    IF ~kpi.defined THEN v = ZeroMetrics
    ELSE /\ kpi.value.applicationsThisMonth = 0 => v.conversionRate = 0
         /\ kpi.value.totalActiveCandidatesPrev = 0 =>
               v.totalCandidatesChange = FromZero(kpi.value.totalActiveCandidates)
         /\ kpi.value.applicationsPrevMonth = 0 =>
               /\ v.applicationsThisMonthChange = FromZero(kpi.value.applicationsThisMonth)
               /\ v.conversionRateChange = FromZero(v.conversionRate)
         /\ kpi.value.hiredPrevMonth = 0 =>
               /\ v.hiredThisMonthChange = FromZero(kpi.value.hiredThisMonth)
               /\ v.conversionRateChange = FromZero(v.conversionRate)

\* the funnel fallbacks: five stages always; no entry-stage candidates give
\* value 0 everywhere, an empty previous stage gives rate 0
FunnelFallbacks(v) ==
    /\ DOMAIN v = 1..5
    /\ v[1].count = 0 => \A s \in 1..5 : v[s].value = 0
    /\ \A s \in 2..5 : v[s - 1].count = 0 => v[s].stageToStageRate = 0

NoRows(data) == ~data.defined \/ Len(data.value) = 0

\* C18: on degenerate input (no rows, null scores only, a denominator of 0)
\* every aggregation returns its all-zero or 'no result' value: the KPI
\* change of a previous 0 is 100 or 0 and the rate of no applications is 0;
\* the funnel of no rows has counts and values 0 and an empty previous
\* stage gives rate 0; the bottleneck is absent while loading and otherwise
\* a stage of rate 0; an assessment without submissions averages 0; the
\* trend of no rows is twelve zeros; the status counts of no rows are 0;
\* candidates without scores give an empty ranking.
C18_DegenerateFallbacks ==
    \A n \in 1..Len(aggResults) :
        LET v == aggResults[n].value
            rows == aggCall.rows
        IN  /\ aggCall.agg = "kpi" => KpiFallbacks(rows, v)
            /\ aggCall.agg = "funnel" =>
                  /\ FunnelFallbacks(v)
                  /\ NoRows(rows) => \A s \in 1..5 : v[s].count = 0 /\ v[s].value = 0
            /\ aggCall.agg = "bottleneck" =>
                  /\ rows.loading => v = None
                  /\ (~rows.loading /\ NoRows(rows.data)) =>
                        v.defined /\ v.value.rate = 0
            /\ aggCall.agg = "assessment" =>
                  /\ DOMAIN v = 1..5
                  /\ \A s \in 1..5 :
                        (NoRows(rows) \/ v[s].submissions = 0) =>
                            v[s] = [name |-> assessmentStages[s], avgScore |-> 0,
                                    submissions |-> 0]
            /\ aggCall.agg = "trend" =>
                  /\ DOMAIN v.candidates = 1..12 /\ DOMAIN v.hires = 1..12
                  /\ Len(rows) = 0 =>
                        \A k \in 1..12 : v.candidates[k] = 0 /\ v.hires[k] = 0
            /\ aggCall.agg = "status" =>
                  (NoRows(rows) => v = [hired |-> 0, rejected |-> 0, inProgress |-> 0])
            /\ aggCall.agg = "top" =>
                  ((\A i \in 1..Len(rows) : Len(rows[i].assessment_results) = 0) => v = <<>>)

\* the KPI metrics were computed from counts whose previous values and
\* applications are all 0
C18_Witness ==
    /\ aggCall.agg = "kpi"
    /\ aggCall.rows.defined
    /\ aggCall.rows.value =
          [totalActiveCandidates |-> 2, applicationsThisMonth |-> 0,
           hiredThisMonth |-> 0, totalActiveCandidatesPrev |-> 0,
           applicationsPrevMonth |-> 0, hiredPrevMonth |-> 0]
    /\ Len(aggResults) >= 1
    /\ aggResults[1].value.totalCandidatesChange = 100
    /\ aggResults[1].value.conversionRate = 0

\* the invocations made so far returned equal results
SameResults(results) ==
    \A m, n \in 1..Len(results) : results[m].value = results[n].value

\* the invocations made so far ran on the same date
SameDate(results) ==
    \A m, n \in 1..Len(results) : results[m].at = results[n].at

----------------------------------------------------------------------------
(* Further properties of the hiring trends (SpecTrends).                   *)

\* the rows of the candidates table without a last-updated timestamp
UnstampedRows ==
    {i \in 1..Len(trendsTable.value) : ~trendsTable.value[i].updated_at.defined}

C23_HiresWithinTouches ==
    /\ \A k \in 1..12 :
          calculatedHiringTrends.hires[k] <= calculatedHiringTrends.candidates[k]
    /\ trendsStatus = "success" =>
          \A i \in 1..Len(trendsTable.value) :
              \A without \in {TrendsOf(now, Remove(trendsTable.value, i))} :
                  \A k \in 1..12 :
                      trendsData.value.hires[k] = without.hires[k] + 1
                          => trendsData.value.candidates[k] = without.candidates[k] + 1

\* one bucket holds a hire and another touch
C23_Witness ==
    /\ trendsStatus = "success"
    /\ \E k \in 1..12 :
          /\ trendsData.value.hires[k] = 1
          /\ trendsData.value.candidates[k] = 2

----------------------------------------------------------------------------
(* Status counts against the funnel (SpecFunnel).                          *)

\* C24: the status counts and the funnel come from the same fetched rows, so
\* in every state the hired count is the count of the last funnel stage,
\* 'Interview Passed (Hired)', and the count of the first stage is at most
\* hired + inProgress.
C24_CountsAgreeWithFunnel ==
    /\ calculatedFunnelData[5].name = "Interview Passed (Hired)"
    /\ calculatedFunnelData[5].count = calculatedStatusCounts.hired
    /\ calculatedFunnelData[1].count
          <= calculatedStatusCounts.hired + calculatedStatusCounts.inProgress

\* a hired, a rejected and another candidate were fetched
C24_Witness ==
    /\ funnelStatus = "success"
    /\ calculatedStatusCounts = [hired |-> 1, rejected |-> 1, inProgress |-> 1]
    /\ calculatedFunnelData[1].count = 2
    /\ calculatedFunnelData[5].count = 1

----------------------------------------------------------------------------
(* Failure of the KPI fetch (SpecKpi).                                     *)

\* C25: if one of the six count queries answers with an error the KPI fetch
\* fails and leaves no counts, partial ones included; and whenever the KPI
\* data is absent, not yet loaded or failed to load, the four values and the
\* four changes of the metrics are all 0.
C25_KpiFailsWhole ==
    /\ (kpiPc = 6 /\ \E i \in 1..6 : kpiReplies[i].error) =>
          kpiStatus = "error" /\ ~kpiData.defined
    /\ ~kpiData.defined => calculatedMetrics = ZeroMetrics
    /\ kpiStatus # "success" => ~kpiData.defined

\* the fourth count query alone answered with an error, the others with
\* counts above 0
C25_Witness ==
    /\ kpiPc = 6
    /\ kpiStatus = "error"
    /\ kpiReplies[4].error
    /\ \A i \in {1, 2, 3, 5, 6} : ~kpiReplies[i].error /\ kpiReplies[i].count.value > 0
    /\ calculatedMetrics.totalCandidates = 0

\* C26: the count behind totalActiveCandidatesPrev is the count behind
\* totalActiveCandidates asked a second time, so the two are equal and
\* totalCandidatesChange is 0 unless a candidate row was added, removed or
\* re-statused between the first and the fourth count query.
C26_SameTotalTwice ==
    kpiStatus = "success" =>
        /\ ~storeWrittenBetween =>
              /\ kpiData.value.totalActiveCandidatesPrev = kpiData.value.totalActiveCandidates
              /\ calculatedMetrics.totalCandidatesChange = 0
        /\ calculatedMetrics.totalCandidatesChange # 0 => storeWrittenBetween

\* two open candidates were counted twice, no row being written in between
C26_Witness ==
    /\ kpiStatus = "success"
    /\ ~storeWrittenBetween
    /\ kpiData.value.totalActiveCandidates = 2
    /\ kpiData.value.totalActiveCandidatesPrev = 2
    /\ calculatedMetrics.totalCandidatesChange = 0

----------------------------------------------------------------------------
(* The role dashboard: pending candidates (SpecPending).                   *)

\* the row of the candidates table with the id of the k-th listed candidate
RowOfListed(k) == pendTable.value[pendingCandidates.value[k].id]

\* C21: for a manager, in whatever letter case the role is written, every
\* listed candidate is assigned to that manager and has status hr_approved,
\* training or final_interview; for hr every listed candidate has status
\* applied or hr_review.
C21_ListedForRole ==
    (pendPc = "done" /\ pendTable.defined) =>
        \A k \in 1..Len(pendingCandidates.value) :
            /\ ToLowerCase(role) = "manager" =>
                  /\ user.defined
                  /\ RowOfListed(k).assigned_manager = user
                  /\ pendingCandidates.value[k].status
                        \in {"hr_approved", "training", "final_interview"}
            /\ ToLowerCase(role) = "hr" =>
                  pendingCandidates.value[k].status \in {"applied", "hr_review"}

\* C27: the pending candidates query never ends in error; for role 'manager'
\* without a user id it returns the empty list without a query to the store,
\* and when the store reports an error it returns the empty list; the
\* dashboard then shows 0 total candidates and 0 pending reviews.
C27_PendingNeverFails ==
    /\ pendStatus # "error"
    /\ (pendPc = "done" /\ role = "manager" /\ ~user.defined) =>
          /\ ~pendIssued
          /\ pendingCandidates = Some(<<>>)
          /\ dashboardStats.totalCandidates = 0
          /\ dashboardStats.pendingReviews = 0
    /\ (pendPc = "done" /\ pendToast) =>
          /\ pendStatus = "success"
          /\ pendingCandidates = Some(<<>>)
          /\ dashboardStats.totalCandidates = 0
          /\ dashboardStats.pendingReviews = 0

\* the store reported an error while it held a candidate the role would list
C27_Witness ==
    /\ pendPc = "done" /\ pendToast /\ pendIssued
    /\ pendTable.defined
    /\ PendingQuery(pendTable.value, role, ManagerIdOf(role, user)) # <<>>
    /\ pendingCandidates = Some(<<>>)

\* the number of listed candidates whose status is in the set
ListedWith(statuses) ==
    Cardinality({k \in 1..Len(pendingCandidates.value) :
                    pendingCandidates.value[k].status \in statuses})

\* C28: pendingReviews never exceeds totalCandidates; for role hr the two
\* are equal; for role manager pendingReviews is the number of listed
\* candidates with status hr_approved or final_interview.
C28_ReviewsWithinTotal ==
    /\ dashboardStats.pendingReviews <= dashboardStats.totalCandidates
    /\ (ToLowerCase(role) = "hr") =>
          dashboardStats.pendingReviews = dashboardStats.totalCandidates
    /\ (ToLowerCase(role) = "manager" /\ pendingCandidates.defined) =>
          dashboardStats.pendingReviews = ListedWith({"hr_approved", "final_interview"})

\* a manager's list holds a candidate in training next to one to review
C28_Witness ==
    /\ role = "manager" /\ pendingCandidates.defined
    /\ ListedWith({"training"}) = 1
    /\ dashboardStats.totalCandidates = 2
    /\ dashboardStats.pendingReviews = 1
\* the candidate profiles query went to the store only once the upcoming
\* interviews had arrived and were not empty
ProfilesAfterInterviews ==
    profIssued => (upcomingInterviewsRaw.defined /\ Len(upcomingInterviewsRaw.value) > 0)

\* the combined list is empty until both results are there
EmptyUntilBoth ==
    (~upcomingInterviewsRaw.defined \/ ~candidateProfiles.defined) =>
        (upcomingInterviews = <<>> /\ nextInterviewDate = None)

\* once both are there the combined list has the length (at most 5) and the
\* order of the fetched interviews
SameLengthAndOrder ==
    (upcomingInterviewsRaw.defined /\ candidateProfiles.defined) =>
        /\ Len(upcomingInterviews) = Len(upcomingInterviewsRaw.value)
        /\ Len(upcomingInterviews) <= InterviewLimit
        /\ \A k \in 1..Len(upcomingInterviews) :
              /\ upcomingInterviews[k].id = upcomingInterviewsRaw.value[k].id
              /\ upcomingInterviews[k].candidateId = upcomingInterviewsRaw.value[k].candidate_id
              /\ upcomingInterviews[k].scheduledAt = upcomingInterviewsRaw.value[k].scheduled_at
        /\ nextInterviewDate = Some(upcomingInterviewsRaw.value[1].scheduled_at)

\* C29 as stated: the profiles query is issued only after a non-empty
\* interviews result; the combined list is empty until both results are
\* there and afterwards has the length and order of the fetched interviews,
\* every entry carrying its profile's name and email, or 'Unknown' when the
\* profile is missing; nextInterviewDate is the first interview's time.
C29_Original ==
    /\ ProfilesAfterInterviews
    /\ EmptyUntilBoth
    /\ SameLengthAndOrder
    /\ (upcomingInterviewsRaw.defined /\ candidateProfiles.defined) =>
          \A k \in 1..Len(upcomingInterviews) :
              LET id == upcomingInterviews[k].candidateId
                  profiles == candidateProfiles.value
              IN  IF id \in DOMAIN profiles
                  THEN /\ upcomingInterviews[k].candidateName = profiles[id].name
                       /\ upcomingInterviews[k].candidateEmail = profiles[id].email
                  ELSE /\ upcomingInterviews[k].candidateName = "Unknown"
                       /\ upcomingInterviews[k].candidateEmail = "Unknown"

\* the name or email shown for a profile's field
Shown(profiles, id, field) ==
    IF id \in DOMAIN profiles /\ profiles[id][field] # "" THEN profiles[id][field]
    ELSE "Unknown"

\* C29: the profiles query is issued only after a non-empty interviews
\* result; the combined list is empty until both results are there and
\* afterwards has the length and order of the fetched interviews, every
\* entry carrying its profile's name and email, or 'Unknown' when the
\* profile is missing or the field is empty; nextInterviewDate is the first
\* interview's time.
C29_CombinedInterviews ==
    /\ ProfilesAfterInterviews
    /\ EmptyUntilBoth
    /\ SameLengthAndOrder
    /\ (upcomingInterviewsRaw.defined /\ candidateProfiles.defined) =>
          \A k \in 1..Len(upcomingInterviews) :
              /\ upcomingInterviews[k].candidateName =
                    Shown(candidateProfiles.value, upcomingInterviews[k].candidateId, "name")
              /\ upcomingInterviews[k].candidateEmail =
                    Shown(candidateProfiles.value, upcomingInterviews[k].candidateId, "email")

\* five of six interviews were fetched, one candidate's profile has an empty
\* name and the other candidate has no profile
C29_Witness ==
    /\ ivTable.defined /\ Len(ivTable.value) = 6
    /\ candidateProfiles.defined
    /\ Len(upcomingInterviews) = InterviewLimit
    /\ DOMAIN candidateProfiles.value = {"c1"}
    /\ candidateProfiles.value["c1"].name = ""
    /\ upcomingInterviews[1].candidateName = "Unknown"
    /\ upcomingInterviews[1].candidateEmail = "ann@example.com"
    /\ upcomingInterviews[3].candidateName = "Unknown"
    /\ nextInterviewDate = Some(<<2026, 11, 1>>)
\* a step of the mount effect
MountStep == navPc = "constructed" /\ navPc' = "mounted"

\* a step of handleLogout
LogoutStep == isAuthenticated /\ navPc' = "leaving"

\* C30: in the navbar isAuthenticated holds exactly when userRole is not
\* null; mounting sets both only when a non-empty stored role exists; a
\* logout removes the stored role, sets isAuthenticated to false and
\* userRole to null, and leaves the scrolled state as it was.
C30_AuthIffRole ==
    /\ [](isAuthenticated <=> userRole # None)
    /\ [][MountStep =>
            IF storedRole.defined /\ storedRole.value # ""
            THEN isAuthenticated' /\ userRole' = storedRole
            ELSE isAuthenticated' = isAuthenticated /\ userRole' = userRole]_vars
    /\ [][LogoutStep =>
            /\ storedRole' = None
            /\ ~isAuthenticated'
            /\ userRole' = None
            /\ isScrolled' = isScrolled]_vars

\* a user who mounted with a stored role and scrolled down has logged out
C30_Witness ==
    /\ navPc = "leaving"
    /\ storedRole = None
    /\ ~isAuthenticated /\ userRole = None
    /\ isScrolled
====
